---- MODULE Spec2Model ----
(***************************************************************************)
(* Retrieval engine and embedding store of BibleAI.                        *)
(*                                                                         *)
(* Python strings are modelled as sequences of one-character strings, so   *)
(* that lower(), substring tests, tokenising and f-string keys are         *)
(* computed character by character as the code computes them.  Vectors are *)
(* sequences of integers and cosine similarities are kept as exact signed  *)
(* squares (see CosineSimilarity).                                         *)
(***************************************************************************)
EXTENDS Integers, Sequences, FiniteSets, TLC

VARIABLES
  Embeddings,        \* EmbeddingsManager.Embeddings: dict in insertion order
  EmbeddingsLoaded,  \* EmbeddingsManager.EmbeddingsLoaded
  CacheFile,         \* content of embeddings_cache.pkl on disk
  Translations,      \* BibleParser.Translations: file name -> verses
  AllStudyNotes,     \* StudyNotesParser.AllStudyNotes
  ChatHistory,       \* BibleChatAgent.ChatHistory
  op,                \* name of the last completed call
  args,              \* its arguments
  ret                \* its outcome

vars ==
  <<Embeddings, EmbeddingsLoaded, CacheFile, Translations, AllStudyNotes, ChatHistory,
    op, args, ret>>

(***************************************************************************)
(* Strings                                                                 *)
(***************************************************************************)
UpperChars ==
  {"A", "B", "C", "D", "E", "F", "G", "H", "I", "J", "K", "L", "M",
   "N", "O", "P", "Q", "R", "S", "T", "U", "V", "W", "X", "Y", "Z"}

LowerChars ==
  {"a", "b", "c", "d", "e", "f", "g", "h", "i", "j", "k", "l", "m",
   "n", "o", "p", "q", "r", "s", "t", "u", "v", "w", "x", "y", "z"}

Digits ==
  {"0", "1", "2", "3", "4", "5", "6", "7", "8", "9"}

UpperToLower ==
  [c \in UpperChars |->
    CASE c = "A" -> "a"
      [] c = "B" -> "b"
      [] c = "C" -> "c"
      [] c = "D" -> "d"
      [] c = "E" -> "e"
      [] c = "F" -> "f"
      [] c = "G" -> "g"
      [] c = "H" -> "h"
      [] c = "I" -> "i"
      [] c = "J" -> "j"
      [] c = "K" -> "k"
      [] c = "L" -> "l"
      [] c = "M" -> "m"
      [] c = "N" -> "n"
      [] c = "O" -> "o"
      [] c = "P" -> "p"
      [] c = "Q" -> "q"
      [] c = "R" -> "r"
      [] c = "S" -> "s"
      [] c = "T" -> "t"
      [] c = "U" -> "u"
      [] c = "V" -> "v"
      [] c = "W" -> "w"
      [] c = "X" -> "x"
      [] c = "Y" -> "y"
      [] c = "Z" -> "z"]

\* str.lower() on one character
LowerChar(c) ==
  IF c \in UpperChars THEN UpperToLower[c] ELSE c

\* str.lower()
Lower(s) ==
  [i \in 1..Len(s) |-> LowerChar(s[i])]

\* Python `t in s` for strings
Contains(s, t) ==
  \E i \in 1..(Len(s) - Len(t) + 1) : SubSeq(s, i, i + Len(t) - 1) = t

\* regex \w (ASCII letters, digits, underscore)
IsWordChar(c) ==
  c \in UpperChars \cup LowerChars \cup Digits \cup {"_"}

\* regex \s
IsSpace(c) ==
  c \in {" ", "\t", "\n"}

\* Python s[:n]
Slice(s, n) ==
  IF n >= 0
    THEN SubSeq(s, 1, IF n < Len(s) THEN n ELSE Len(s))
    ELSE SubSeq(s, 1, IF Len(s) + n > 0 THEN Len(s) + n ELSE 0)

\* concatenation of a sequence of strings
RECURSIVE Concat(_)
Concat(parts) ==
  IF parts = <<>> THEN <<>> ELSE Head(parts) \o Concat(Tail(parts))

\* re.findall(r'\b\w+\b', s): the maximal runs of word characters, in order
RECURSIVE FindWords(_, _)
FindWords(s, cur) ==
  IF s = <<>>
    THEN IF cur = <<>> THEN <<>> ELSE <<cur>>
    ELSE IF IsWordChar(Head(s))
      THEN FindWords(Tail(s), Append(cur, Head(s)))
      ELSE IF cur = <<>>
        THEN FindWords(Tail(s), <<>>)
        ELSE <<cur>> \o FindWords(Tail(s), <<>>)

\* str.strip()
RECURSIVE LStrip(_)
LStrip(s) ==
  IF s # <<>> /\ IsSpace(Head(s)) THEN LStrip(Tail(s)) ELSE s

RECURSIVE RStrip(_)
RStrip(s) ==
  IF s # <<>> /\ IsSpace(s[Len(s)]) THEN RStrip(SubSeq(s, 1, Len(s) - 1)) ELSE s

Strip(s) ==
  RStrip(LStrip(s))

\* re.sub(r'\s+', ' ', s)
RECURSIVE CollapseSpaces(_)
CollapseSpaces(s) ==
  IF s = <<>> THEN <<>>
  ELSE IF IsSpace(Head(s))
    THEN <<" ">> \o CollapseSpaces(LStrip(s))
    ELSE <<Head(s)>> \o CollapseSpaces(Tail(s))

(***************************************************************************)
(* Records                                                                 *)
(***************************************************************************)
\* BibleVerse(...) with __post_init__: the text is stripped and its
\* whitespace runs collapsed
BibleVerse(translation, book, chapter, verse, text, osis_id) ==
  [translation |-> translation, book |-> book, chapter |-> chapter,
   verse |-> verse, text |-> CollapseSpaces(Strip(text)), osis_id |-> osis_id]

StudyNote(file_path, content, book, testament, chapter_topic, filename, line_count) ==
  [file_path |-> file_path, content |-> content, book |-> book,
   testament |-> testament, chapter_topic |-> chapter_topic,
   filename |-> filename, line_count |-> line_count]

EmbeddingItem(id, embedding, content, content_type, metadata) ==
  [id |-> id, embedding |-> embedding, content |-> content,
   content_type |-> content_type, metadata |-> metadata]

(***************************************************************************)
(* RetrievalEngine: fusion                                                 *)
(***************************************************************************)
\* f"{verse.translation}:{verse.osis_id}"
VerseKey(verse) ==
  verse.translation \o <<":">> \o verse.osis_id

\* One loop of _CombineAndDeduplicateVerses over `items`, from the
\* accumulator acc = [seen, combined, full]; full is set when the loop
\* leaves early because len(combined) >= max_results.
RECURSIVE DedupLoopVerses(_, _, _)
DedupLoopVerses(items, acc, max_results) ==
  IF items = <<>> \/ acc.full THEN acc
  ELSE LET verse == Head(items)
           verse_key == VerseKey(verse)
       IN IF verse_key \notin acc.seen
            THEN DedupLoopVerses(Tail(items),
                   [seen |-> acc.seen \cup {verse_key},
                    combined |-> Append(acc.combined, verse),
                    full |-> Len(acc.combined) + 1 >= max_results],
                   max_results)
            ELSE DedupLoopVerses(Tail(items), acc, max_results)

\* variant: the semantic records are taken last to first
Records_Reversed(semantic_results) ==
  [i \in 1..Len(semantic_results) |->
     semantic_results[Len(semantic_results) + 1 - i][1]]

\* the (record, similarity) tuples of a semantic pass, records only
Records(semantic_results) ==
  [i \in 1..Len(semantic_results) |-> semantic_results[i][1]]

\* variant: the keyword loop starts from a fresh seen_verses set
CombineVerses_FreshSeen(semantic_results, keyword_results, max_results) ==
  LET start == [seen |-> {}, combined |-> <<>>, full |-> FALSE]
      afterSemantic == DedupLoopVerses(Records(semantic_results), start, max_results)
  IN IF afterSemantic.full
       THEN afterSemantic.combined
       ELSE DedupLoopVerses(keyword_results, [afterSemantic EXCEPT !.seen = {}],
                            max_results).combined

_CombineAndDeduplicateVerses(semantic_results, keyword_results, max_results) ==
  LET start == [seen |-> {}, combined |-> <<>>, full |-> FALSE]
      afterSemantic == DedupLoopVerses(Records(semantic_results), start, max_results)
  IN IF afterSemantic.full
       THEN afterSemantic.combined
       ELSE DedupLoopVerses(keyword_results, afterSemantic, max_results).combined

RECURSIVE DedupLoopNotes(_, _, _)
DedupLoopNotes(items, acc, max_results) ==
  IF items = <<>> \/ acc.full THEN acc
  ELSE LET note == Head(items)
       IN IF note.file_path \notin acc.seen
            THEN DedupLoopNotes(Tail(items),
                   [seen |-> acc.seen \cup {note.file_path},
                    combined |-> Append(acc.combined, note),
                    full |-> Len(acc.combined) + 1 >= max_results],
                   max_results)
            ELSE DedupLoopNotes(Tail(items), acc, max_results)

_CombineAndDeduplicateStudyNotes(semantic_results, keyword_results, max_results) ==
  LET start == [seen |-> {}, combined |-> <<>>, full |-> FALSE]
      afterSemantic == DedupLoopNotes(Records(semantic_results), start, max_results)
  IN IF afterSemantic.full
       THEN afterSemantic.combined
       ELSE DedupLoopNotes(keyword_results, afterSemantic, max_results).combined

(***************************************************************************)
(* EmbeddingsManager                                                       *)
(***************************************************************************)
\* A Python dict is a sequence of [key, value] pairs in insertion order
\* with pairwise different keys.
DictKeys(d) ==
  {d[i].key : i \in 1..Len(d)}

\* variant: an existing key keeps its old value
DictSet_FirstWriteWins(d, key, value) ==
  IF key \in DictKeys(d)
    THEN d
    ELSE Append(d, [key |-> key, value |-> value])

\* d[key] = value: an existing key keeps its place, a new key goes last
DictSet(d, key, value) ==
  IF key \in DictKeys(d)
    THEN [i \in 1..Len(d) |-> IF d[i].key = key THEN [key |-> key, value |-> value] ELSE d[i]]
    ELSE Append(d, [key |-> key, value |-> value])

\* Python None
None ==
  [none |-> TRUE]

\* d.get(key)
DictGet(d, key) ==
  IF key \in DictKeys(d)
    THEN d[CHOOSE i \in 1..Len(d) : d[i].key = key].value
    ELSE None

\* list(d.values())
DictValues(d) ==
  [i \in 1..Len(d) |-> d[i].value]

\* f"bible_{verse.translation}_{verse.osis_id}"
BibleItemId(verse) ==
  <<"b", "i", "b", "l", "e", "_">> \o verse.translation \o <<"_">> \o verse.osis_id

\* f"study_{note.book}_{note.filename}"
StudyItemId(note) ==
  <<"s", "t", "u", "d", "y", "_">> \o note.book \o <<"_">> \o note.filename

BibleItem(verse, embedding) ==
  EmbeddingItem(BibleItemId(verse), embedding, verse.text, "bible_verse",
    [translation |-> verse.translation, book |-> verse.book,
     chapter |-> verse.chapter, verse |-> verse.verse, osis_id |-> verse.osis_id])

StudyItem(note, embedding) ==
  EmbeddingItem(StudyItemId(note), embedding, note.content, "study_note",
    [book |-> note.book, testament |-> note.testament,
     chapter_topic |-> note.chapter_topic, filename |-> note.filename,
     file_path |-> note.file_path, line_count |-> note.line_count])

\* for verse, embedding in zip(verses, embeddings): self.Embeddings[item_id] = ...
RECURSIVE StoreVerses(_, _, _)
StoreVerses(d, verses, embeddings) ==
  IF verses = <<>> \/ embeddings = <<>> THEN d
  ELSE StoreVerses(DictSet(d, BibleItemId(Head(verses)), BibleItem(Head(verses), Head(embeddings))),
                   Tail(verses), Tail(embeddings))

RECURSIVE StoreNotes(_, _, _)
StoreNotes(d, study_notes, embeddings) ==
  IF study_notes = <<>> \/ embeddings = <<>> THEN d
  ELSE StoreNotes(DictSet(d, StudyItemId(Head(study_notes)), StudyItem(Head(study_notes), Head(embeddings))),
                  Tail(study_notes), Tail(embeddings))

\* variant: no length validation, zip stops at the shorter list
AddBibleVerseEmbeddings_NoLengthCheck(d, verses, embeddings) ==
  [Embeddings |-> StoreVerses(d, verses, embeddings), raised |-> "none"]

\* AddBibleVerseEmbeddings on the dict d: the dict afterwards and the
\* exception raised ("none" for a normal return)
AddBibleVerseEmbeddings(d, verses, embeddings) ==
  IF Len(verses) # Len(embeddings)
    THEN [Embeddings |-> d, raised |-> "ValueError"]
    ELSE [Embeddings |-> StoreVerses(d, verses, embeddings), raised |-> "none"]

AddStudyNoteEmbeddings(d, study_notes, embeddings) ==
  IF Len(study_notes) # Len(embeddings)
    THEN [Embeddings |-> d, raised |-> "ValueError"]
    ELSE [Embeddings |-> StoreNotes(d, study_notes, embeddings), raised |-> "none"]

\* Sum of a sequence of integers
RECURSIVE SumSeq(_)
SumSeq(s) ==
  IF s = <<>> THEN 0 ELSE Head(s) + SumSeq(Tail(s))

\* np.dot for vectors of one length
Dot(a, b) ==
  SumSeq([i \in 1..Len(a) |-> a[i] * b[i]])

\* A similarity x is kept exactly as the signed square of the cosine,
\* sign(x) * x^2 = num / den with den > 0; x -> sign(x) * x^2 is strictly
\* increasing, so comparisons of similarities are comparisons of these.
Sim(num, den) ==
  [num |-> num, den |-> den]

SimGeq(x, y) ==
  x.num * y.den >= y.num * x.den

SimEq(x, y) ==
  x.num * y.den = y.num * x.den

\* _CosineSimilarity: 0.0 when a norm is zero, else dot / (norm_a * norm_b)
_CosineSimilarity(vector_a, vector_b) ==
  LET dot_product == Dot(vector_a, vector_b)
      norm_a2 == Dot(vector_a, vector_a)
      norm_b2 == Dot(vector_b, vector_b)
  IN IF norm_a2 = 0 \/ norm_b2 = 0
       THEN Sim(0, 1)
       ELSE Sim((IF dot_product >= 0 THEN 1 ELSE -1) * dot_product * dot_product,
                norm_a2 * norm_b2)

\* list.sort(key = similarity, reverse = True) is stable: an element goes
\* behind every element that is at least as similar
RECURSIVE InsertBySimilarity(_, _)
InsertBySimilarity(sorted, x) ==
  IF sorted = <<>> THEN <<x>>
  ELSE IF SimGeq(Head(sorted)[2], x[2])
    THEN <<Head(sorted)>> \o InsertBySimilarity(Tail(sorted), x)
    ELSE <<x>> \o sorted

RECURSIVE SortBySimilarity(_, _)
SortBySimilarity(pending, sorted) ==
  IF pending = <<>> THEN sorted
  ELSE SortBySimilarity(Tail(pending), InsertBySimilarity(sorted, Head(pending)))

\* variant: the content type filter is not applied
PassesFilter_AnyType(item, content_type_filter) ==
  TRUE

\* `if content_type_filter and item.content_type != content_type_filter:
\* continue`; the filter None is the string "None", the empty string is falsy
PassesFilter(item, content_type_filter) ==
  content_type_filter = "None" \/ content_type_filter = "" \/ item.content_type = content_type_filter

RECURSIVE FilterItems(_, _)
FilterItems(items, content_type_filter) ==
  IF items = <<>> THEN <<>>
  ELSE IF PassesFilter(Head(items), content_type_filter)
    THEN <<Head(items)>> \o FilterItems(Tail(items), content_type_filter)
    ELSE FilterItems(Tail(items), content_type_filter)

\* variant: truncates the unsorted list, then sorts
FindSimilarContent_SliceBeforeSort(d, query_embedding, content_type_filter, max_results) ==
  IF d = <<>> THEN <<>>
  ELSE LET kept == FilterItems(DictValues(d), content_type_filter)
           similarities == [i \in 1..Len(kept) |->
                              <<kept[i], _CosineSimilarity(query_embedding, kept[i].embedding)>>]
       IN SortBySimilarity(Slice(similarities, max_results), <<>>)

FindSimilarContent(d, query_embedding, content_type_filter, max_results) ==
  IF d = <<>> THEN <<>>
  ELSE LET kept == FilterItems(DictValues(d), content_type_filter)
           similarities == [i \in 1..Len(kept) |->
                              <<kept[i], _CosineSimilarity(query_embedding, kept[i].embedding)>>]
       IN Slice(SortBySimilarity(similarities, <<>>), max_results)

GetEmbedding(d, item_id) ==
  DictGet(d, item_id)

RECURSIVE ItemsOfType(_, _)
ItemsOfType(items, content_type) ==
  IF items = <<>> THEN <<>>
  ELSE IF Head(items).content_type = content_type
    THEN <<Head(items)>> \o ItemsOfType(Tail(items), content_type)
    ELSE ItemsOfType(Tail(items), content_type)

GetEmbeddingsByType(d, content_type) ==
  ItemsOfType(DictValues(d), content_type)

\* variant: the pickled entry has no 'metadata' key
ItemData_NoMetadata(item) ==
  [id |-> item.id, embedding |-> item.embedding, content |-> item.content,
   content_type |-> item.content_type]

\* the dict entry SaveEmbeddings pickles for an item
ItemData(item) ==
  [id |-> item.id, embedding |-> item.embedding, content |-> item.content,
   content_type |-> item.content_type, metadata |-> item.metadata]

\* the cache file a successful SaveEmbeddings of the dict d leaves
SavedFile(d) ==
  [kind |-> "dict",
   data |-> [i \in 1..Len(d) |-> [key |-> d[i].key, value |-> ItemData(d[i].value)]]]

\* item_data has the five keys LoadEmbeddings reads
CompleteItemData(item_data) ==
  {"id", "embedding", "content", "content_type", "metadata"} \subseteq DOMAIN item_data

\* the loop `for item_id, item_data in embeddings_data.items()`
RECURSIVE LoadItems(_, _)
LoadItems(d, data) ==
  IF data = <<>> THEN d
  ELSE LoadItems(DictSet(d, Head(data).key,
                         EmbeddingItem(Head(data).value.id, Head(data).value.embedding,
                                       Head(data).value.content,
                                       Head(data).value.content_type,
                                       Head(data).value.metadata)),
                 Tail(data))

\* the entries of data before the first one without one of the five keys
RECURSIVE CompletePrefix(_)
CompletePrefix(data) ==
  IF data = <<>> \/ ~CompleteItemData(Head(data).value) THEN <<>>
  ELSE <<Head(data)>> \o CompletePrefix(Tail(data))

\* the try block of LoadEmbeddings on a file that exists: the dict it has
\* built and the exception that ended it, if any.  pickle.load fails on a
\* file that is not a pickle; an entry without one of the five keys raises
\* KeyError after the entries before it have been stored.
LoadTry(d, file) ==
  IF file.kind = "dict"
    THEN IF \A i \in 1..Len(file.data) : CompleteItemData(file.data[i].value)
           THEN [Embeddings |-> LoadItems(d, file.data), raised |-> "none"]
           ELSE [Embeddings |-> LoadItems(d, CompletePrefix(file.data)),
                 raised |-> "KeyError"]
    ELSE [Embeddings |-> d, raised |-> "UnpicklingError"]

\* variant: no except clause, the exception of the try block reaches the caller
LoadEmbeddings_NoExcept(d, loaded, file) ==
  IF file.kind = "missing"
    THEN [Embeddings |-> d, EmbeddingsLoaded |-> loaded, raised |-> "none"]
    ELSE LET body == LoadTry(d, file)
         IN IF body.raised = "none"
              THEN [Embeddings |-> body.Embeddings, EmbeddingsLoaded |-> TRUE,
                    raised |-> "none"]
              ELSE [Embeddings |-> body.Embeddings, EmbeddingsLoaded |-> loaded,
                    raised |-> body.raised]

\* LoadEmbeddings: the dict and the flag afterwards, and what reaches the
\* caller.  A missing file returns at once; an exception of the try block
\* lands in the except branch, which only empties the dict.
LoadEmbeddings(d, loaded, file) ==
  IF file.kind = "missing"
    THEN [Embeddings |-> d, EmbeddingsLoaded |-> loaded, raised |-> "none"]
    ELSE LET body == LoadTry(d, file)
         IN IF body.raised = "none"
              THEN [Embeddings |-> body.Embeddings, EmbeddingsLoaded |-> TRUE,
                    raised |-> "none"]
              ELSE [Embeddings |-> <<>>, EmbeddingsLoaded |-> loaded, raised |-> "none"]

\* the outcomes of the two I/O steps of SaveEmbeddings: both succeed, open
\* raises (the file is left as it was), or pickle.dump raises after open
\* has truncated the file
SaveFaults ==
  {"none", "open", "dump"}

\* SaveEmbeddings under the I/O outcome `fault`: the dict, the flag and the
\* cache file afterwards, and what reaches the caller
SaveEmbeddings(d, loaded, file, fault) ==
  [Embeddings |-> d,
   EmbeddingsLoaded |-> loaded,
   CacheFile |-> CASE fault = "none" -> SavedFile(d)
                   [] fault = "open" -> file
                   [] OTHER -> [kind |-> "truncated"],
   saved |-> fault = "none",
   raised |-> "none"]

\* variant: the cache file is left on disk
ClearEmbeddings_KeepsFile(d, loaded, file) ==
  [Embeddings |-> <<>>, EmbeddingsLoaded |-> FALSE, CacheFile |-> file,
   unlinked |-> FALSE, raised |-> "none"]

\* ClearEmbeddings: `unlinked` tells whether the cache file existed and was
\* removed
ClearEmbeddings(d, loaded, file) ==
  [Embeddings |-> <<>>, EmbeddingsLoaded |-> FALSE, CacheFile |-> [kind |-> "missing"],
   unlinked |-> file.kind # "missing", raised |-> "none"]

(***************************************************************************)
(* BibleParser                                                             *)
(***************************************************************************)
LowerToUpper ==
  [c \in LowerChars |->
    CASE c = "a" -> "A"
      [] c = "b" -> "B"
      [] c = "c" -> "C"
      [] c = "d" -> "D"
      [] c = "e" -> "E"
      [] c = "f" -> "F"
      [] c = "g" -> "G"
      [] c = "h" -> "H"
      [] c = "i" -> "I"
      [] c = "j" -> "J"
      [] c = "k" -> "K"
      [] c = "l" -> "L"
      [] c = "m" -> "M"
      [] c = "n" -> "N"
      [] c = "o" -> "O"
      [] c = "p" -> "P"
      [] c = "q" -> "Q"
      [] c = "r" -> "R"
      [] c = "s" -> "S"
      [] c = "t" -> "T"
      [] c = "u" -> "U"
      [] c = "v" -> "V"
      [] c = "w" -> "W"
      [] c = "x" -> "X"
      [] c = "y" -> "Y"
      [] c = "z" -> "Z"]

\* str.upper()
Upper(s) ==
  [i \in 1..Len(s) |-> IF s[i] \in LowerChars THEN LowerToUpper[s[i]] ELSE s[i]]

\* s.endswith(t)
EndsWith(s, t) ==
  Len(s) >= Len(t) /\ SubSeq(s, Len(s) - Len(t) + 1, Len(s)) = t

\* s.replace(t, '') for a non-empty t
RECURSIVE RemoveAll(_, _)
RemoveAll(s, t) ==
  IF Len(s) < Len(t) THEN s
  ELSE IF SubSeq(s, 1, Len(t)) = t
    THEN RemoveAll(SubSeq(s, Len(t) + 1, Len(s)), t)
    ELSE <<Head(s)>> \o RemoveAll(Tail(s), t)

\* s.split(sep) for a one-character sep
RECURSIVE Split(_, _, _)
Split(s, sep, cur) ==
  IF s = <<>> THEN <<cur>>
  ELSE IF Head(s) = sep
    THEN <<cur>> \o Split(Tail(s), sep, <<>>)
    ELSE Split(Tail(s), sep, Append(cur, Head(s)))

DigitValue(c) ==
  CASE c = "0" -> 0 [] c = "1" -> 1 [] c = "2" -> 2 [] c = "3" -> 3 [] c = "4" -> 4
    [] c = "5" -> 5 [] c = "6" -> 6 [] c = "7" -> 7 [] c = "8" -> 8 [] c = "9" -> 9

\* int(s) succeeds (plain decimal digits)
IsInt(s) ==
  s # <<>> /\ \A i \in 1..Len(s) : s[i] \in Digits

RECURSIVE ParseInt(_)
ParseInt(s) ==
  IF s = <<>> THEN 0 ELSE 10 * ParseInt(SubSeq(s, 1, Len(s) - 1)) + DigitValue(s[Len(s)])

XmlSuffix ==
  <<".", "x", "m", "l">>

\* translation_name.replace('.xml', '').upper()
TranslationCode(translation_name) ==
  Upper(RemoveAll(translation_name, XmlSuffix))

\* the verse elements of a file that ParseTranslation keeps: osisID and
\* text present, osisID of three dot-separated parts, chapter and verse
\* integers
ValidVerseElem(elem) ==
  /\ elem.osisID # <<>>
  /\ Strip(elem.text) # <<>>
  /\ LET parts == Split(elem.osisID, ".", <<>>)
     IN Len(parts) = 3 /\ IsInt(parts[2]) /\ IsInt(parts[3])

VerseOfElem(translation_code, elem) ==
  LET parts == Split(elem.osisID, ".", <<>>)
  IN BibleVerse(translation_code, parts[1], ParseInt(parts[2]), ParseInt(parts[3]),
                elem.text, elem.osisID)

\* verses_by_book[book].append(bible_verse), a new book going last
AppendToBook(verses_by_book, verse) ==
  IF verse.book \in DictKeys(verses_by_book)
    THEN [i \in 1..Len(verses_by_book) |->
            IF verses_by_book[i].key = verse.book
              THEN [key |-> verse.book, value |-> Append(verses_by_book[i].value, verse)]
              ELSE verses_by_book[i]]
    ELSE Append(verses_by_book, [key |-> verse.book, value |-> <<verse>>])

RECURSIVE VersesByBook(_, _, _)
VersesByBook(translation_code, elems, verses_by_book) ==
  IF elems = <<>> THEN verses_by_book
  ELSE IF ValidVerseElem(Head(elems))
    THEN VersesByBook(translation_code, Tail(elems),
           AppendToBook(verses_by_book, VerseOfElem(translation_code, Head(elems))))
    ELSE VersesByBook(translation_code, Tail(elems), verses_by_book)

\* ParseTranslation: self.Translations after parsing the verse elements
\* `elems` of the file translation_name
ParseTranslation(translations, translation_name, elems) ==
  DictSet(translations, translation_name,
          VersesByBook(TranslationCode(translation_name), elems, <<>>))

\* the verses of one translation in the order of the two nested loops
\* `for book_verses in ...values(): for verse in book_verses`
RECURSIVE VersesInOrder(_)
VersesInOrder(verses_by_book) ==
  IF verses_by_book = <<>> THEN <<>>
  ELSE Head(verses_by_book).value \o VersesInOrder(Tail(verses_by_book))

\* translations_to_search of SearchVerses and GetVersesByTopicKeywords
TranslationsToSearch(translations, translation) ==
  IF translation # None /\ translation # <<>>
    THEN IF EndsWith(translation, XmlSuffix)
           THEN <<translation>>
           ELSE <<Lower(translation) \o XmlSuffix>>
    ELSE [i \in 1..Len(translations) |-> translations[i].key]

\* all verses the search loops visit, in order; a name that is not a key
\* of self.Translations is skipped
RECURSIVE VersesToSearch(_, _)
VersesToSearch(translations, names) ==
  IF names = <<>> THEN <<>>
  ELSE (IF Head(names) \in DictKeys(translations)
          THEN VersesInOrder(DictGet(translations, Head(names)))
          ELSE <<>>)
       \o VersesToSearch(translations, Tail(names))

\* any(keyword in verse_text_lower for keyword in keywords_lower)
VerseHasKeyword(verse, keywords_lower) ==
  \E i \in 1..Len(keywords_lower) : Contains(Lower(verse.text), keywords_lower[i])

\* results.append(verse); if len(results) >= max_results: return results
RECURSIVE CollectVerses(_, _, _, _)
CollectVerses(verses, keywords_lower, max_results, results) ==
  IF verses = <<>> THEN results
  ELSE IF VerseHasKeyword(Head(verses), keywords_lower)
    THEN IF Len(results) + 1 >= max_results
           THEN Append(results, Head(verses))
           ELSE CollectVerses(Tail(verses), keywords_lower, max_results,
                              Append(results, Head(verses)))
    ELSE CollectVerses(Tail(verses), keywords_lower, max_results, results)

GetVersesByTopicKeywords(translations, keywords, translation, max_results) ==
  LET keywords_lower == [i \in 1..Len(keywords) |-> Lower(keywords[i])]
  IN CollectVerses(VersesToSearch(translations, TranslationsToSearch(translations, translation)),
                   keywords_lower, max_results, <<>>)

\* SearchVerses: the same loops with the one test `query_lower in text`
SearchVerses(translations, query, translation, max_results) ==
  CollectVerses(VersesToSearch(translations, TranslationsToSearch(translations, translation)),
                <<Lower(query)>>, max_results, <<>>)

(***************************************************************************)
(* StudyNotesParser                                                        *)
(***************************************************************************)
NoteMatches(note, query_lower) ==
  \/ Contains(Lower(note.content), query_lower)
  \/ Contains(Lower(note.chapter_topic), query_lower)

RECURSIVE CollectNotes(_, _, _, _)
CollectNotes(notes, query_lower, max_results, results) ==
  IF notes = <<>> THEN results
  ELSE IF NoteMatches(Head(notes), query_lower)
    THEN IF Len(results) + 1 >= max_results
           THEN Append(results, Head(notes))
           ELSE CollectNotes(Tail(notes), query_lower, max_results,
                             Append(results, Head(notes)))
    ELSE CollectNotes(Tail(notes), query_lower, max_results, results)

RECURSIVE NotesOfBook(_, _)
NotesOfBook(notes, book_filter_lower) ==
  IF notes = <<>> THEN <<>>
  ELSE IF Contains(Lower(Head(notes).book), book_filter_lower)
    THEN <<Head(notes)>> \o NotesOfBook(Tail(notes), book_filter_lower)
    ELSE NotesOfBook(Tail(notes), book_filter_lower)

SearchStudyNotes(all_study_notes, query, book_filter, max_results) ==
  LET notes_to_search == IF book_filter # None /\ book_filter # <<>>
                           THEN NotesOfBook(all_study_notes, Lower(book_filter))
                           ELSE all_study_notes
  IN CollectNotes(notes_to_search, Lower(query), max_results, <<>>)

(***************************************************************************)
(* RetrievalEngine: the two passes                                         *)
(***************************************************************************)
common_words ==
  {
    <<"t", "h", "e">>, <<"a">>, <<"a", "n">>, <<"a", "n", "d">>, <<"o", "r">>,
    <<"b", "u", "t">>, <<"i", "n">>, <<"o", "n">>, <<"a", "t">>, <<"t", "o">>,
    <<"f", "o", "r">>, <<"o", "f">>, <<"w", "i", "t", "h">>, <<"b", "y">>, <<"i", "s">>,
    <<"a", "r", "e">>, <<"w", "a", "s">>, <<"w", "e", "r", "e">>, <<"b", "e">>,
    <<"b", "e", "e", "n">>, <<"b", "e", "i", "n", "g">>, <<"h", "a", "v", "e">>,
    <<"h", "a", "s">>, <<"h", "a", "d">>, <<"d", "o">>, <<"d", "o", "e", "s">>,
    <<"d", "i", "d">>, <<"w", "i", "l", "l">>, <<"w", "o", "u", "l", "d">>,
    <<"c", "o", "u", "l", "d">>, <<"s", "h", "o", "u", "l", "d">>, <<"m", "a", "y">>,
    <<"m", "i", "g", "h", "t">>, <<"c", "a", "n">>, <<"w", "h", "a", "t">>,
    <<"w", "h", "e", "n">>, <<"w", "h", "e", "r", "e">>, <<"w", "h", "y">>, <<"h", "o", "w">>,
    <<"w", "h", "o">>, <<"w", "h", "i", "c", "h">>, <<"t", "h", "a", "t">>,
    <<"t", "h", "i", "s">>, <<"t", "h", "e", "s", "e">>, <<"t", "h", "o", "s", "e">>
  }

\* [word for word in words if word not in common_words and len(word) > 2]
RECURSIVE KeepKeywords(_)
KeepKeywords(words) ==
  IF words = <<>> THEN <<>>
  ELSE IF Head(words) \notin common_words /\ Len(Head(words)) > 2
    THEN <<Head(words)>> \o KeepKeywords(Tail(words))
    ELSE KeepKeywords(Tail(words))

\* variant: the keyword list is not cut to 10
_ExtractKeywords_NoCap(query) ==
  KeepKeywords(FindWords(Lower(query), <<>>))

_ExtractKeywords(query) ==
  Slice(KeepKeywords(FindWords(Lower(query), <<>>)), 10)

TRANSLATION_PRIORITY ==
  << <<"Y", "L", "T">>, <<"K", "J", "V">>, <<"W", "E", "B">> >>

\* variant: the loop goes on to the next translation although the bound
\* is reached
RECURSIVE KeywordVersesLoop_NoBreak(_, _, _, _, _)
KeywordVersesLoop_NoBreak(translations, keywords, priority, max_results, acc) ==
  IF priority = <<>> THEN acc
  ELSE LET verses == GetVersesByTopicKeywords(translations, keywords, Head(priority), max_results)
       IN KeywordVersesLoop_NoBreak(translations, keywords, Tail(priority), max_results,
            [all_verses |-> acc.all_verses \o verses,
             queried |-> Append(acc.queried,
                                [translation |-> Head(priority), returned |-> Len(verses)])])

\* the loop of _RetrieveBibleVersesKeyword over the translations left, from
\* the accumulator acc = [all_verses, queried]; queried lists the calls of
\* GetVersesByTopicKeywords made so far, each with the translation asked
\* for and the number of verses it returned
RECURSIVE KeywordVersesLoop(_, _, _, _, _)
KeywordVersesLoop(translations, keywords, priority, max_results, acc) ==
  IF priority = <<>> THEN acc
  ELSE LET verses == GetVersesByTopicKeywords(translations, keywords, Head(priority), max_results)
           extended == [all_verses |-> acc.all_verses \o verses,
                        queried |-> Append(acc.queried,
                                           [translation |-> Head(priority),
                                            returned |-> Len(verses)])]
       IN IF Len(extended.all_verses) >= max_results
            THEN extended
            ELSE KeywordVersesLoop(translations, keywords, Tail(priority), max_results, extended)

_RetrieveBibleVersesKeyword(translations, query, max_results) ==
  Slice(KeywordVersesLoop(translations, _ExtractKeywords(query), TRANSLATION_PRIORITY,
                          max_results, [all_verses |-> <<>>, queried |-> <<>>]).all_verses,
        max_results)

RECURSIVE KeywordNotesLoop(_, _, _, _)
KeywordNotesLoop(all_study_notes, keywords, max_results, all_notes) ==
  IF keywords = <<>> THEN all_notes
  ELSE LET notes == SearchStudyNotes(all_study_notes, Head(keywords), None, max_results)
           extended == all_notes \o notes
       IN IF Len(extended) >= max_results
            THEN extended
            ELSE KeywordNotesLoop(all_study_notes, Tail(keywords), max_results, extended)

\* variant: the accumulated hits are returned without the final slice
_RetrieveStudyNotesKeyword_NoSlice(all_study_notes, query, max_results) ==
  KeywordNotesLoop(all_study_notes, _ExtractKeywords(query), max_results, <<>>)

_RetrieveStudyNotesKeyword(all_study_notes, query, max_results) ==
  Slice(KeywordNotesLoop(all_study_notes, _ExtractKeywords(query), max_results, <<>>),
        max_results)

\* DEFAULT_SIMILARITY_THRESHOLD = 0.3 as a signed square: 0.09 = 9 / 100
DEFAULT_SIMILARITY_THRESHOLD ==
  Sim(9, 100)

\* variant: chapter and verse are taken from each other's metadata field
VerseOfItem_ChapterVerseSwapped(item) ==
  BibleVerse(item.metadata.translation, item.metadata.book, item.metadata.verse,
             item.metadata.chapter, item.content, item.metadata.osis_id)

\* the verse rebuilt from an entry's metadata and content
VerseOfItem(item) ==
  BibleVerse(item.metadata.translation, item.metadata.book, item.metadata.chapter,
             item.metadata.verse, item.content, item.metadata.osis_id)

NoteOfItem(item) ==
  StudyNote(item.metadata.file_path, item.content, item.metadata.book,
            item.metadata.testament, item.metadata.chapter_topic,
            item.metadata.filename, item.metadata.line_count)

\* variant: no similarity threshold
SemanticVerses_NoThreshold(similar_items) ==
  [i \in 1..Len(similar_items) |->
     <<VerseOfItem(similar_items[i][1]), similar_items[i][2]>>]

\* the loop `for item, similarity in similar_items` of the semantic verse pass
RECURSIVE SemanticVerses(_)
SemanticVerses(similar_items) ==
  IF similar_items = <<>> THEN <<>>
  ELSE IF SimGeq(Head(similar_items)[2], DEFAULT_SIMILARITY_THRESHOLD)
    THEN << <<VerseOfItem(Head(similar_items)[1]), Head(similar_items)[2]>> >>
         \o SemanticVerses(Tail(similar_items))
    ELSE SemanticVerses(Tail(similar_items))

RECURSIVE SemanticNotes(_)
SemanticNotes(similar_items) ==
  IF similar_items = <<>> THEN <<>>
  ELSE IF SimGeq(Head(similar_items)[2], DEFAULT_SIMILARITY_THRESHOLD)
    THEN << <<NoteOfItem(Head(similar_items)[1]), Head(similar_items)[2]>> >>
         \o SemanticNotes(Tail(similar_items))
    ELSE SemanticNotes(Tail(similar_items))

\* variant: the pass searches the store whatever EmbeddingsLoaded says
_RetrieveBibleVersesSemantic_IgnoresFlag(d, loaded, query_embedding, max_results) ==
  [value |-> SemanticVerses(FindSimilarContent(d, query_embedding, "bible_verse",
                                               max_results)),
   find_similar_calls |-> 1]

\* the semantic verse pass: its result list and the number of calls of
\* FindSimilarContent it made
_RetrieveBibleVersesSemantic(d, loaded, query_embedding, max_results) ==
  IF ~loaded
    THEN [value |-> <<>>, find_similar_calls |-> 0]
    ELSE [value |-> SemanticVerses(FindSimilarContent(d, query_embedding, "bible_verse",
                                                      max_results)),
          find_similar_calls |-> 1]

_RetrieveStudyNotesSemantic(d, loaded, query_embedding, max_results) ==
  IF ~loaded
    THEN [value |-> <<>>, find_similar_calls |-> 0]
    ELSE [value |-> SemanticNotes(FindSimilarContent(d, query_embedding, "study_note",
                                                     max_results)),
          find_similar_calls |-> 1]

Q_love ==
  <<"l", "o", "v", "e">>

Q_the ==
  <<"t", "h", "e">>

Q_loveGod ==
  <<"l", "o", "v", "e", " ", "G", "o", "d">>

\* _GenerateEmbedding: a fixed vector per text.  The code takes the MD5
\* digest bytes of the text, scaled to [0, 1]; here each text has a small
\* vector of non-negative integers, not all zero.
_GenerateEmbedding(text) ==
  CASE text = Q_love -> <<1, 0>>
    [] text = Q_the -> <<1, 1>>
    [] OTHER -> <<2, 1>>

\* variant: total_bible_results reports the bound instead of the count
RetrieveContent_TotalIsBound(d, loaded, translations, all_study_notes, query, max_bible_results, max_study_results) ==
  LET query_embedding == _GenerateEmbedding(query)
      semantic_bible_verses ==
        _RetrieveBibleVersesSemantic(d, loaded, query_embedding, max_bible_results)
      semantic_study_notes ==
        _RetrieveStudyNotesSemantic(d, loaded, query_embedding, max_study_results)
      keyword_bible_verses ==
        _RetrieveBibleVersesKeyword(translations, query, max_bible_results)
      keyword_study_notes ==
        _RetrieveStudyNotesKeyword(all_study_notes, query, max_study_results)
      combined_bible_verses ==
        _CombineAndDeduplicateVerses(semantic_bible_verses.value, keyword_bible_verses,
                                     max_bible_results)
      combined_study_notes ==
        _CombineAndDeduplicateStudyNotes(semantic_study_notes.value, keyword_study_notes,
                                         max_study_results)
  IN [bible_verses |-> combined_bible_verses,
      study_notes |-> combined_study_notes,
      query |-> query,
      total_bible_results |-> max_bible_results,
      total_study_results |-> Len(combined_study_notes),
      raised |-> "none",
      semantic_bible_verses |-> semantic_bible_verses.value,
      semantic_study_notes |-> semantic_study_notes.value,
      keyword_bible_verses |-> keyword_bible_verses,
      keyword_study_notes |-> keyword_study_notes,
      find_similar_calls |-> semantic_bible_verses.find_similar_calls
                             + semantic_study_notes.find_similar_calls]

\* RetrieveContent: the returned dict, with the four intermediate lists and
\* the number of FindSimilarContent calls kept beside it
RetrieveContent(d, loaded, translations, all_study_notes, query, max_bible_results, max_study_results) ==
  LET query_embedding == _GenerateEmbedding(query)
      semantic_bible_verses ==
        _RetrieveBibleVersesSemantic(d, loaded, query_embedding, max_bible_results)
      semantic_study_notes ==
        _RetrieveStudyNotesSemantic(d, loaded, query_embedding, max_study_results)
      keyword_bible_verses ==
        _RetrieveBibleVersesKeyword(translations, query, max_bible_results)
      keyword_study_notes ==
        _RetrieveStudyNotesKeyword(all_study_notes, query, max_study_results)
      combined_bible_verses ==
        _CombineAndDeduplicateVerses(semantic_bible_verses.value, keyword_bible_verses,
                                     max_bible_results)
      combined_study_notes ==
        _CombineAndDeduplicateStudyNotes(semantic_study_notes.value, keyword_study_notes,
                                         max_study_results)
  IN [bible_verses |-> combined_bible_verses,
      study_notes |-> combined_study_notes,
      query |-> query,
      total_bible_results |-> Len(combined_bible_verses),
      total_study_results |-> Len(combined_study_notes),
      raised |-> "none",
      semantic_bible_verses |-> semantic_bible_verses.value,
      semantic_study_notes |-> semantic_study_notes.value,
      keyword_bible_verses |-> keyword_bible_verses,
      keyword_study_notes |-> keyword_study_notes,
      find_similar_calls |-> semantic_bible_verses.find_similar_calls
                             + semantic_study_notes.find_similar_calls]

(***************************************************************************)
(* Bounds and the values the calls are made with                           *)
(***************************************************************************)
\* max_results, max_bible_results and max_study_results range over 0..MaxResults
MaxResults ==
  2

\* longest list handed to the fusion functions
MaxList ==
  2

\* longest record list and longest vector list of one Add*Embeddings call
MaxBatch ==
  2

SeqsUpTo(S, n) ==
  UNION {[1..k -> S] : k \in 0..n}

S_KJV ==
  <<"K", "J", "V">>

S_YLT ==
  <<"Y", "L", "T">>

S_John ==
  <<"J", "o", "h", "n">>

S_John316 ==
  <<"J", "o", "h", "n", ".", "3", ".", "1", "6">>

S_John317 ==
  <<"J", "o", "h", "n", ".", "3", ".", "1", "7">>

T_Loved ==
  <<"F", "o", "r", " ", "G", "o", "d", " ", "s", "o", " ", "l", "o", "v", "e", "d", " ", "t", "h", "e", " ", "w", "o", "r", "l", "d">>

T_Beginning ==
  <<" ", "I", "n", " ", "t", "h", "e", " ", " ", "b", "e", "g", "i", "n", "n", "i", "n", "g">>

V_KJV_316 ==
  BibleVerse(S_KJV, S_John, 3, 16, T_Loved, S_John316)

\* the same verse (translation, osis_id) with another text
V_KJV_316b ==
  BibleVerse(S_KJV, S_John, 3, 16, <<"G", "o", "d", " ", "s", "o", " ", "l", "o", "v", "e", "d">>, S_John316)

V_KJV_317 ==
  BibleVerse(S_KJV, S_John, 3, 17, T_Beginning, S_John317)

V_YLT_316 ==
  BibleVerse(S_YLT, S_John, 3, 16, T_Loved, S_John316)

N_NT ==
  StudyNote(<<"N", "T", "/", "J", "o", "h", "n", "/", "a", ".", "t", "x", "t">>, <<"G", "o", "d", " ", "i", "s", " ", "l", "o", "v", "e">>, S_John, <<"N", "T">>, <<"J", "o", "h", "n", " ", "3">>, <<"a", ".", "t", "x", "t">>, 1)

\* the same file read again after an edit: same file_path, other content
N_NTb ==
  StudyNote(<<"N", "T", "/", "J", "o", "h", "n", "/", "a", ".", "t", "x", "t">>, <<"G", "o", "d", " ", "o", "f", " ", "g", "r", "a", "c", "e">>, S_John, <<"N", "T">>, <<"J", "o", "h", "n", " ", "3">>, <<"a", ".", "t", "x", "t">>, 2)

\* another file of the same book with the same file name
N_OT ==
  StudyNote(<<"O", "T", "/", "J", "o", "h", "n", "/", "a", ".", "t", "x", "t">>, <<"G", "o", "d", " ", "o", "f", " ", "g", "r", "a", "c", "e">>, S_John, <<"O", "T">>, <<"J", "o", "h", "n", " ", "3">>, <<"a", ".", "t", "x", "t">>, 1)

VersePool ==
  {V_KJV_316, V_KJV_317}

NotePool ==
  {N_NT, N_OT}

VectorPool ==
  {<<1, 0>>, <<1, 1>>}

(***************************************************************************)
(* State machine                                                           *)
(***************************************************************************)
\* the three objects right after construction, no cache file on disk
Init ==
  /\ Embeddings = <<>>
  /\ EmbeddingsLoaded = FALSE
  /\ CacheFile = [kind |-> "missing"]
  /\ Translations = <<>>
  /\ AllStudyNotes = <<>>
  /\ ChatHistory = <<>>
  /\ op = "idle"
  /\ args = None
  /\ ret = None

\* The calls are made one at a time (the program is single-threaded):
\* a call is made when op = "idle" and runs to completion in one step,
\* leaving its name, arguments and outcome in op, args and ret; Return
\* hands control back to the caller.
Return ==
  /\ op # "idle"
  /\ op' = "idle"
  /\ args' = None
  /\ ret' = None
  /\ UNCHANGED <<Embeddings, EmbeddingsLoaded, CacheFile, Translations, AllStudyNotes, ChatHistory>>

\* the lists the fusion functions are called with
FusionVerses ==
  {V_KJV_316, V_KJV_316b, V_YLT_316}

FusionNotes ==
  {N_NT, N_NTb, N_OT}

\* a pending call of a fusion function on any two lists within the bounds
InitCombine ==
  /\ Embeddings = <<>>
  /\ EmbeddingsLoaded = FALSE
  /\ CacheFile = [kind |-> "missing"]
  /\ Translations = <<>>
  /\ AllStudyNotes = <<>>
  /\ ChatHistory = <<>>
  /\ op = "call"
  /\ \E class \in {"verses", "notes"}, max_results \in 0..MaxResults :
       \E semantic \in SeqsUpTo((IF class = "verses" THEN FusionVerses ELSE FusionNotes)
                                \X {Sim(1, 1), Sim(1, 2)}, MaxList),
          keyword \in SeqsUpTo(IF class = "verses" THEN FusionVerses ELSE FusionNotes, MaxList) :
         args = [class |-> class, semantic_results |-> semantic,
                 keyword_results |-> keyword, max_results |-> max_results]
  /\ ret = None

\* the pending call of _CombineAndDeduplicateVerses runs
CombineVerses ==
  /\ op = "call"
  /\ args.class = "verses"
  /\ op' = "_CombineAndDeduplicateVerses"
  /\ ret' = [value |-> _CombineAndDeduplicateVerses(args.semantic_results,
                         args.keyword_results, args.max_results)]
  /\ UNCHANGED <<args, Embeddings, EmbeddingsLoaded, CacheFile, Translations, AllStudyNotes, ChatHistory>>

\* the pending call of _CombineAndDeduplicateStudyNotes runs
CombineStudyNotes ==
  /\ op = "call"
  /\ args.class = "notes"
  /\ op' = "_CombineAndDeduplicateStudyNotes"
  /\ ret' = [value |-> _CombineAndDeduplicateStudyNotes(args.semantic_results,
                         args.keyword_results, args.max_results)]
  /\ UNCHANGED <<args, Embeddings, EmbeddingsLoaded, CacheFile, Translations, AllStudyNotes, ChatHistory>>

NextCombine ==
  \/ CombineVerses
  \/ CombineStudyNotes

\* the fusion step alone, on every pair of lists within the bounds
SpecCombine ==
  InitCombine /\ [][NextCombine]_vars

\* a call of AddBibleVerseEmbeddings
AddVerses ==
  \E verses \in SeqsUpTo(VersePool, MaxBatch), embeddings \in SeqsUpTo(VectorPool, MaxBatch) :
    LET result == AddBibleVerseEmbeddings(Embeddings, verses, embeddings)
    IN /\ op = "idle"
       /\ Embeddings' = result.Embeddings
       /\ op' = "AddBibleVerseEmbeddings"
       /\ args' = [records |-> verses, embeddings |-> embeddings]
       /\ ret' = [raised |-> result.raised]
       /\ UNCHANGED <<EmbeddingsLoaded, CacheFile, Translations, AllStudyNotes, ChatHistory>>

\* a call of AddStudyNoteEmbeddings
AddNotes ==
  \E study_notes \in SeqsUpTo(NotePool, MaxBatch), embeddings \in SeqsUpTo(VectorPool, MaxBatch) :
    LET result == AddStudyNoteEmbeddings(Embeddings, study_notes, embeddings)
    IN /\ op = "idle"
       /\ Embeddings' = result.Embeddings
       /\ op' = "AddStudyNoteEmbeddings"
       /\ args' = [records |-> study_notes, embeddings |-> embeddings]
       /\ ret' = [raised |-> result.raised]
       /\ UNCHANGED <<EmbeddingsLoaded, CacheFile, Translations, AllStudyNotes, ChatHistory>>

\* the query vectors FindSimilarContent is called with
QueryVectors ==
  {<<1, 0>>, <<2, 1>>}

\* a call of FindSimilarContent
FindSimilar ==
  \E query_embedding \in QueryVectors,
     content_type_filter \in {"None", "bible_verse", "study_note"},
     max_results \in 0..MaxResults :
    /\ op = "idle"
    /\ op' = "FindSimilarContent"
    /\ args' = [query_embedding |-> query_embedding,
                content_type_filter |-> content_type_filter, max_results |-> max_results]
    /\ ret' = [value |-> FindSimilarContent(Embeddings, query_embedding,
                                            content_type_filter, max_results)]
    /\ UNCHANGED <<Embeddings, EmbeddingsLoaded, CacheFile, Translations, AllStudyNotes, ChatHistory>>

\* the identifiers GetEmbedding is called with
ItemIds ==
  {BibleItemId(V_KJV_316), BibleItemId(V_KJV_317), StudyItemId(N_NT)}

\* a call of GetEmbedding
GetOne ==
  \E item_id \in ItemIds :
    /\ op = "idle"
    /\ op' = "GetEmbedding"
    /\ args' = [item_id |-> item_id]
    /\ ret' = [value |-> GetEmbedding(Embeddings, item_id)]
    /\ UNCHANGED <<Embeddings, EmbeddingsLoaded, CacheFile, Translations, AllStudyNotes, ChatHistory>>

\* a call of GetEmbeddingsByType
GetByType ==
  \E content_type \in {"bible_verse", "study_note"} :
    /\ op = "idle"
    /\ op' = "GetEmbeddingsByType"
    /\ args' = [content_type |-> content_type]
    /\ ret' = [value |-> GetEmbeddingsByType(Embeddings, content_type)]
    /\ UNCHANGED <<Embeddings, EmbeddingsLoaded, CacheFile, Translations, AllStudyNotes, ChatHistory>>

NextStore ==
  \/ AddVerses
  \/ AddNotes
  \/ FindSimilar
  \/ GetOne
  \/ GetByType
  \/ Return

\* the embedding store in memory: adds and lookups
SpecStore ==
  Init /\ [][NextStore]_vars

(***************************************************************************)
(* Record store and retrieval                                              *)
(***************************************************************************)
\* most verse elements in one translation file
MaxFileVerses ==
  2

\* most verses in the Record Store, all translations together
MaxStoreVerses ==
  3

\* most notes in AllStudyNotes
MaxNotes ==
  2

F_kjv ==
  <<"k", "j", "v", ".", "x", "m", "l">>

F_ylt ==
  <<"y", "l", "t", ".", "x", "m", "l">>

\* verse elements of a translation file: osisID attribute and text
ElemPool ==
  {[osisID |-> S_John316, text |-> T_Loved],
   [osisID |-> S_John317, text |-> T_Beginning]}

\* number of verses held by self.Translations
RECURSIVE CountVerses(_)
CountVerses(translations) ==
  IF translations = <<>> THEN 0
  ELSE Len(VersesInOrder(Head(translations).value)) + CountVerses(Tail(translations))

\* a call of ParseTranslation on one of the files `names`
ParseFile(names) ==
  \E translation_name \in names, elems \in SeqsUpTo(ElemPool, MaxFileVerses) \ {<<>>} :
    LET parsed == ParseTranslation(Translations, translation_name, elems)
    IN /\ op = "idle"
       /\ CountVerses(parsed) <= MaxStoreVerses
       /\ Translations' = parsed
       /\ op' = "ParseTranslation"
       /\ args' = [translation_name |-> translation_name]
       /\ ret' = [raised |-> "none"]
       /\ UNCHANGED <<Embeddings, EmbeddingsLoaded, CacheFile, AllStudyNotes, ChatHistory>>

ParseKjv ==
  ParseFile({F_kjv})

ParseAny ==
  ParseFile({F_ylt, F_kjv})

\* the note files under the notes directory
NoteFiles ==
  {N_NT}

\* a call of LoadAllStudyNotes that finds the note files `found` (pairwise
\* different paths) and appends them to AllStudyNotes
LoadAllStudyNotes ==
  \E found \in SeqsUpTo(NoteFiles, MaxNotes) \ {<<>>} :
    /\ op = "idle"
    /\ \A i, j \in 1..Len(found) : found[i].file_path = found[j].file_path => i = j
    /\ Len(AllStudyNotes) + Len(found) <= MaxNotes
    /\ AllStudyNotes' = AllStudyNotes \o found
    /\ op' = "LoadAllStudyNotes"
    /\ args' = None
    /\ ret' = [raised |-> "none"]
    /\ UNCHANGED <<Embeddings, EmbeddingsLoaded, CacheFile, Translations, ChatHistory>>

\* a call of LoadEmbeddings
Load ==
  LET result == LoadEmbeddings(Embeddings, EmbeddingsLoaded, CacheFile)
  IN /\ op = "idle"
     /\ Embeddings' = result.Embeddings
     /\ EmbeddingsLoaded' = result.EmbeddingsLoaded
     /\ op' = "LoadEmbeddings"
     /\ args' = None
     /\ ret' = [raised |-> result.raised]
     /\ UNCHANGED <<CacheFile, Translations, AllStudyNotes, ChatHistory>>

Queries ==
  {Q_love, Q_loveGod}

\* variant: a retrieval marks the Embedding Store as loaded
Retrieve_MarksLoaded ==
  \E query \in Queries, max_bible_results \in 0..MaxResults,
     max_study_results \in 0..MaxResults :
    /\ op = "idle"
    /\ op' = "RetrieveContent"
    /\ args' = [query |-> query, max_bible_results |-> max_bible_results,
                max_study_results |-> max_study_results]
    /\ ret' = RetrieveContent(Embeddings, EmbeddingsLoaded, Translations, AllStudyNotes,
                              query, max_bible_results, max_study_results)
    /\ EmbeddingsLoaded' = TRUE
    /\ UNCHANGED <<Embeddings, CacheFile, Translations, AllStudyNotes, ChatHistory>>

\* a call of RetrieveContent
Retrieve ==
  \E query \in Queries, max_bible_results \in 0..MaxResults,
     max_study_results \in 0..MaxResults :
    /\ op = "idle"
    /\ op' = "RetrieveContent"
    /\ args' = [query |-> query, max_bible_results |-> max_bible_results,
                max_study_results |-> max_study_results]
    /\ ret' = RetrieveContent(Embeddings, EmbeddingsLoaded, Translations, AllStudyNotes,
                              query, max_bible_results, max_study_results)
    /\ UNCHANGED <<Embeddings, EmbeddingsLoaded, CacheFile, Translations, AllStudyNotes, ChatHistory>>

\* vectors of the entries in a cache file
FileVectors ==
  {<<1, 0>>, <<1, 1>>, <<0, 1>>}

\* the cache files an earlier run can have left: none, or the saved store
\* of one verse batch and at most one note
CacheFiles ==
  {[kind |-> "missing"]} \cup
  {SavedFile(AddStudyNoteEmbeddings(
               AddBibleVerseEmbeddings(<<>>, verses, embeddings).Embeddings,
               notes, SubSeq(<< <<1, 0>> >>, 1, Len(notes))).Embeddings) :
     verses \in SeqsUpTo(VersePool, MaxBatch),
     embeddings \in SeqsUpTo(FileVectors, MaxBatch),
     notes \in SeqsUpTo({N_NT}, 1)}

\* the program at start-up over whatever cache file is on disk
InitRetrieval ==
  /\ Embeddings = <<>>
  /\ EmbeddingsLoaded = FALSE
  /\ CacheFile \in CacheFiles
  /\ Translations = <<>>
  /\ AllStudyNotes = <<>>
  /\ ChatHistory = <<>>
  /\ op = "idle"
  /\ args = None
  /\ ret = None

Next ==
  \/ ParseKjv
  \/ LoadAllStudyNotes
  \/ Load
  \/ Retrieve
  \/ Return

\* the retrieval pipeline over a store loaded from the cache file
Spec ==
  InitRetrieval /\ [][Next]_vars

\* variant: an add marks the store as loaded
AddOneVerse_MarksLoaded ==
  LET result == AddBibleVerseEmbeddings(Embeddings, <<V_KJV_316>>, << <<1, 0>> >>)
  IN /\ op = "idle"
     /\ Embeddings' = result.Embeddings
     /\ EmbeddingsLoaded' = TRUE
     /\ op' = "AddBibleVerseEmbeddings"
     /\ args' = [records |-> <<V_KJV_316>>, embeddings |-> << <<1, 0>> >>]
     /\ ret' = [raised |-> result.raised]
     /\ UNCHANGED <<CacheFile, Translations, AllStudyNotes, ChatHistory>>

\* one verse and one note, the batches of the adds of SpecUnloaded
AddOneVerse ==
  LET result == AddBibleVerseEmbeddings(Embeddings, <<V_KJV_316>>, << <<1, 0>> >>)
  IN /\ op = "idle"
     /\ Embeddings' = result.Embeddings
     /\ op' = "AddBibleVerseEmbeddings"
     /\ args' = [records |-> <<V_KJV_316>>, embeddings |-> << <<1, 0>> >>]
     /\ ret' = [raised |-> result.raised]
     /\ UNCHANGED <<EmbeddingsLoaded, CacheFile, Translations, AllStudyNotes, ChatHistory>>

AddOneNote ==
  LET result == AddStudyNoteEmbeddings(Embeddings, <<N_NT>>, << <<1, 0>> >>)
  IN /\ op = "idle"
     /\ Embeddings' = result.Embeddings
     /\ op' = "AddStudyNoteEmbeddings"
     /\ args' = [records |-> <<N_NT>>, embeddings |-> << <<1, 0>> >>]
     /\ ret' = [raised |-> result.raised]
     /\ UNCHANGED <<EmbeddingsLoaded, CacheFile, Translations, AllStudyNotes, ChatHistory>>

NextUnloaded ==
  \/ ParseAny
  \/ LoadAllStudyNotes
  \/ AddOneVerse
  \/ AddOneNote
  \/ Retrieve
  \/ Return

\* keyword-only retrieval: entries are added but never loaded from a file
SpecUnloaded ==
  Init /\ [][NextUnloaded]_vars

\* the retrieval pipeline of Spec together with direct calls of
\* FindSimilarContent
NextClasses ==
  \/ FindSimilar
  \/ ParseKjv
  \/ LoadAllStudyNotes
  \/ Load
  \/ Retrieve
  \/ Return

SpecClasses ==
  InitRetrieval /\ [][NextClasses]_vars

(***************************************************************************)
(* Persistence of the Embedding Store                                      *)
(***************************************************************************)
\* a cache file written by an earlier run that saved one verse entry
F_OneVerse ==
  SavedFile(AddBibleVerseEmbeddings(<<>>, <<V_KJV_317>>, << <<1, 1>> >>).Embeddings)

\* a readable pickle of a dict whose second entry has no 'metadata' key
F_Incomplete ==
  [kind |-> "dict",
   data |-> F_OneVerse.data \o
            << [key |-> BibleItemId(V_KJV_316),
                value |-> [id |-> BibleItemId(V_KJV_316), embedding |-> <<1, 0>>,
                           content |-> V_KJV_316.text, content_type |-> "bible_verse"]] >>]

\* what can be at EmbeddingsCachePath when the manager is constructed
PersistFiles ==
  {[kind |-> "missing"], [kind |-> "garbage"], F_OneVerse, F_Incomplete}

InitPersist ==
  /\ Embeddings = <<>>
  /\ EmbeddingsLoaded = FALSE
  /\ CacheFile \in PersistFiles
  /\ Translations = <<>>
  /\ AllStudyNotes = <<>>
  /\ ChatHistory = <<>>
  /\ op = "idle"
  /\ args = None
  /\ ret = None

\* a new EmbeddingsManager over the same data directory
NewManager ==
  /\ op = "idle"
  /\ Embeddings' = <<>>
  /\ EmbeddingsLoaded' = FALSE
  /\ op' = "EmbeddingsManager"
  /\ args' = None
  /\ ret' = [raised |-> "none"]
  /\ UNCHANGED <<CacheFile, Translations, AllStudyNotes, ChatHistory>>

\* a call of SaveEmbeddings
Save ==
  \E fault \in SaveFaults :
    LET result == SaveEmbeddings(Embeddings, EmbeddingsLoaded, CacheFile, fault)
    IN /\ op = "idle"
       /\ Embeddings' = result.Embeddings
       /\ EmbeddingsLoaded' = result.EmbeddingsLoaded
       /\ CacheFile' = result.CacheFile
       /\ op' = "SaveEmbeddings"
       /\ args' = None
       /\ ret' = [raised |-> result.raised, saved |-> result.saved]
       /\ UNCHANGED <<Translations, AllStudyNotes, ChatHistory>>

\* a call of ClearEmbeddings
Clear ==
  LET result == ClearEmbeddings(Embeddings, EmbeddingsLoaded, CacheFile)
  IN /\ op = "idle"
     /\ Embeddings' = result.Embeddings
     /\ EmbeddingsLoaded' = result.EmbeddingsLoaded
     /\ CacheFile' = result.CacheFile
     /\ op' = "ClearEmbeddings"
     /\ args' = None
     /\ ret' = [raised |-> result.raised, unlinked |-> result.unlinked]
     /\ UNCHANGED <<Translations, AllStudyNotes, ChatHistory>>

NextPersist ==
  \/ NewManager
  \/ AddOneVerse
  \/ AddOneNote
  \/ Save
  \/ Load
  \/ Clear
  \/ Return

\* the Embedding Store and its cache file over adds, saves, loads and clears
SpecPersist ==
  InitPersist /\ [][NextPersist]_vars

(***************************************************************************)
(* Keyword extraction                                                      *)
(***************************************************************************)
\* most leading copies of "grace " in a query
MaxRepeat ==
  10

\* most words after them
MaxWords ==
  2

Q_Bible ==
  <<"W", "h", "a", "t", " ", "d", "o", "e", "s", " ", "t", "h", "e", " ", "B", "i", "b", "l", "e", " ", "s", "a", "y", " ", "a", "b", "o", "u", "t", " ", "l", "o", "v", "e", "?">>

W_grace ==
  <<"g", "r", "a", "c", "e">>

\* a word kept in capitals, a stop word in capitals, a short word, a word
\* with a digit and an underscore, a stop word of two letters
WordPool ==
  {<<"L", "o", "v", "e">>, <<"T", "h", "e">>, <<"G", "o">>, <<"a", "_", "1">>, <<"o", "f">>}

\* what stands between two words
Separators ==
  {<<" ">>, <<"'">>}

\* the n words joined, each followed by sep
RECURSIVE JoinWords(_, _)
JoinWords(words, sep) ==
  IF words = <<>> THEN <<>>
  ELSE Head(words) \o sep \o JoinWords(Tail(words), sep)

\* the queries _ExtractKeywords is called with
ExtractQueries ==
  {Q_Bible} \cup
  {JoinWords([i \in 1..n |-> W_grace] \o words, sep) :
     n \in 0..MaxRepeat, words \in SeqsUpTo(WordPool, MaxWords), sep \in Separators}

\* a pending call of _ExtractKeywords
InitExtract ==
  /\ Embeddings = <<>>
  /\ EmbeddingsLoaded = FALSE
  /\ CacheFile = [kind |-> "missing"]
  /\ Translations = <<>>
  /\ AllStudyNotes = <<>>
  /\ ChatHistory = <<>>
  /\ op = "call"
  /\ \E query \in ExtractQueries : args = [query |-> query]
  /\ ret = None

\* the pending call runs
ExtractKeywords ==
  /\ op = "call"
  /\ op' = "_ExtractKeywords"
  /\ ret' = [value |-> _ExtractKeywords(args.query)]
  /\ UNCHANGED <<args, Embeddings, EmbeddingsLoaded, CacheFile, Translations, AllStudyNotes, ChatHistory>>

NextExtract ==
  ExtractKeywords

SpecExtract ==
  InitExtract /\ [][NextExtract]_vars

(***************************************************************************)
(* Searches of the Record Store                                            *)
(***************************************************************************)
K_love ==
  <<"l", "o", "v", "e">>

K_god ==
  <<"g", "o", "d">>

\* the `translation` argument: absent, a code, a file name
TranslationArgs ==
  {None, S_KJV, F_ylt}

\* a call of SearchVerses
CallSearchVerses ==
  \E query \in {Q_love, Q_the}, translation \in TranslationArgs,
     max_results \in 0..MaxResults :
    /\ op = "idle"
    /\ op' = "SearchVerses"
    /\ args' = [query |-> query, translation |-> translation, max_results |-> max_results]
    /\ ret' = [value |-> SearchVerses(Translations, query, translation, max_results)]
    /\ UNCHANGED <<Embeddings, EmbeddingsLoaded, CacheFile, Translations, AllStudyNotes, ChatHistory>>

\* a call of GetVersesByTopicKeywords
CallGetVersesByTopicKeywords ==
  \E keywords \in {<<K_love>>, <<K_god, K_love>>}, translation \in TranslationArgs,
     max_results \in 0..MaxResults :
    /\ op = "idle"
    /\ op' = "GetVersesByTopicKeywords"
    /\ args' = [keywords |-> keywords, translation |-> translation,
                max_results |-> max_results]
    /\ ret' = [value |-> GetVersesByTopicKeywords(Translations, keywords, translation,
                                                  max_results)]
    /\ UNCHANGED <<Embeddings, EmbeddingsLoaded, CacheFile, Translations, AllStudyNotes, ChatHistory>>

\* a call of SearchStudyNotes
CallSearchStudyNotes ==
  \E query \in {Q_love, S_John}, book_filter \in {None, S_John},
     max_results \in 0..MaxResults :
    /\ op = "idle"
    /\ op' = "SearchStudyNotes"
    /\ args' = [query |-> query, book_filter |-> book_filter, max_results |-> max_results]
    /\ ret' = [value |-> SearchStudyNotes(AllStudyNotes, query, book_filter, max_results)]
    /\ UNCHANGED <<Embeddings, EmbeddingsLoaded, CacheFile, Translations, AllStudyNotes, ChatHistory>>

NextSearch ==
  \/ ParseAny
  \/ LoadAllStudyNotes
  \/ CallSearchVerses
  \/ CallGetVersesByTopicKeywords
  \/ CallSearchStudyNotes
  \/ Return

\* the searches of BibleParser and StudyNotesParser over parsed files
SpecSearch ==
  Init /\ [][NextSearch]_vars

(***************************************************************************)
(* BibleChatAgent                                                          *)
(***************************************************************************)
DEFAULT_MAX_BIBLE_VERSES ==
  10

DEFAULT_MAX_STUDY_NOTES ==
  5

CHAT_SESSION_MAX_HISTORY ==
  10

\* Python s[-n:] for n > 0
LastN(s, n) ==
  IF Len(s) <= n THEN s ELSE SubSeq(s, Len(s) - n + 1, Len(s))

\* variant: the history is never cut
_AddToChatHistory_NoTrim(history, role, content) ==
  Append(history, [role |-> role, content |-> content])

\* _AddToChatHistory: append, then keep the last 10 once there are more
\* than 20
_AddToChatHistory(history, role, content) ==
  LET appended == Append(history, [role |-> role, content |-> content])
  IN IF Len(appended) > CHAT_SESSION_MAX_HISTORY * 2
       THEN LastN(appended, CHAT_SESSION_MAX_HISTORY)
       ELSE appended

\* the content of the AgentResponse when the LLM gave nothing
FailureContent ==
  <<"I", " ", "a", "p", "o", "l", "o", "g", "i", "z", "e", ",", " ", "b", "u", "t", " ", "I", "'", "m", " ", "h", "a", "v", "i", "n", "g", " ", "t", "r", "o", "u", "b", "l", "e", " ", "g", "e", "n", "e", "r", "a", "t", "i", "n", "g", " ", "a", " ", "r", "e", "s", "p", "o", "n", "s", "e", " ", "r", "i", "g", "h", "t", " ", "n", "o", "w", ".", " ", "P", "l", "e", "a", "s", "e", " ", "t", "r", "y", " ", "a", "g", "a", "i", "n", ".">>

\* a reply of the LLM
R_reply ==
  <<"G", "o", "d", " ", "i", "s", " ", "l", "o", "v", "e", ".">>

\* what LlmClient.GenerateResponse does: it returns a text, an empty text
\* or None, or it raises on a response body whose 'choices' list is empty
LlmOutcomes ==
  {"text", "empty", "none", "malformed"}

\* variant: the reply is added to the history whether or not the call
\* succeeded
ProcessChatMessage_AddsReplyOnFailure(history, d, loaded, translations, all_study_notes, user_message, max_bible_verses, max_study_notes, llm) ==
  LET withUser == _AddToChatHistory(history, "user", user_message)
      retrieved_content == RetrieveContent(d, loaded, translations, all_study_notes,
                                           user_message, max_bible_verses, max_study_notes)
      llm_response == CASE llm = "text" -> R_reply
                        [] llm = "empty" -> <<>>
                        [] OTHER -> None
      success == llm_response # None /\ llm_response # <<>>
      content == IF success THEN llm_response ELSE FailureContent
  IN IF llm = "malformed"
       THEN [ChatHistory |-> withUser, raised |-> "IndexError"]
       ELSE [ChatHistory |-> _AddToChatHistory(withUser, "assistant", content),
             raised |-> "none",
             success |-> success,
             content |-> content,
             verses_used |-> retrieved_content.bible_verses]

\* ProcessChatMessage under the LLM outcome `llm`: the history afterwards
\* and the AgentResponse returned, or the exception raised
ProcessChatMessage(history, d, loaded, translations, all_study_notes, user_message, max_bible_verses, max_study_notes, llm) ==
  LET withUser == _AddToChatHistory(history, "user", user_message)
      retrieved_content == RetrieveContent(d, loaded, translations, all_study_notes,
                                           user_message, max_bible_verses, max_study_notes)
      llm_response == CASE llm = "text" -> R_reply
                        [] llm = "empty" -> <<>>
                        [] OTHER -> None
      success == llm_response # None /\ llm_response # <<>>
  IN IF llm = "malformed"
       THEN [ChatHistory |-> withUser, raised |-> "IndexError"]
       ELSE [ChatHistory |-> IF success
                               THEN _AddToChatHistory(withUser, "assistant", llm_response)
                               ELSE withUser,
             raised |-> "none",
             success |-> success,
             content |-> IF success THEN llm_response ELSE FailureContent,
             verses_used |-> retrieved_content.bible_verses]

\* a call of ProcessChatMessage with the default bounds
ProcessChat ==
  \E user_message \in {Q_love}, llm \in LlmOutcomes :
    LET result == ProcessChatMessage(ChatHistory, Embeddings, EmbeddingsLoaded, Translations,
                                     AllStudyNotes, user_message, DEFAULT_MAX_BIBLE_VERSES,
                                     DEFAULT_MAX_STUDY_NOTES, llm)
    IN /\ op = "idle"
       /\ ChatHistory' = result.ChatHistory
       /\ op' = "ProcessChatMessage"
       /\ args' = [user_message |-> user_message, llm |-> llm]
       /\ ret' = [f \in DOMAIN result \ {"ChatHistory"} |-> result[f]]
       /\ UNCHANGED <<Embeddings, EmbeddingsLoaded, CacheFile, Translations, AllStudyNotes>>

\* a direct call of _AddToChatHistory
AddToChatHistory ==
  \E content \in {Q_love} :
    /\ op = "idle"
    /\ ChatHistory' = _AddToChatHistory(ChatHistory, "user", content)
    /\ op' = "_AddToChatHistory"
    /\ args' = [role |-> "user", content |-> content]
    /\ ret' = [raised |-> "none"]
    /\ UNCHANGED <<Embeddings, EmbeddingsLoaded, CacheFile, Translations, AllStudyNotes>>

\* a call of ClearChatHistory
ClearChatHistory ==
  /\ op = "idle"
  /\ ChatHistory' = <<>>
  /\ op' = "ClearChatHistory"
  /\ args' = None
  /\ ret' = [raised |-> "none"]
  /\ UNCHANGED <<Embeddings, EmbeddingsLoaded, CacheFile, Translations, AllStudyNotes>>

NextChat ==
  \/ ProcessChat
  \/ AddToChatHistory
  \/ ClearChatHistory
  \/ Return

\* one chat session of the agent
SpecChat ==
  Init /\ [][NextChat]_vars

(***************************************************************************)
(* The semantic passes on their own                                        *)
(***************************************************************************)
\* embedding vectors: the zero vector, a unit vector, one at cosine
\* exactly 3/10 to the unit vector and one below it (cosine^2 = 4/95)
SemanticVectors ==
  {<<0, 0, 0, 0>>, <<1, 0, 0, 0>>, <<3, 9, 3, 1>>, <<2, 9, 3, 1>>}

\* the cache files of SpecSemantic: none, the saved empty store, and a
\* saved store of one verse
SemanticFiles ==
  {[kind |-> "missing"],
   SavedFile(<<>>),
   SavedFile(AddBibleVerseEmbeddings(<<>>, <<V_YLT_316>>, << <<3, 9, 3, 1>> >>).Embeddings)}

InitSemantic ==
  /\ Embeddings = <<>>
  /\ EmbeddingsLoaded = FALSE
  /\ CacheFile \in SemanticFiles
  /\ Translations = <<>>
  /\ AllStudyNotes = <<>>
  /\ ChatHistory = <<>>
  /\ op = "idle"
  /\ args = None
  /\ ret = None

\* a call of AddBibleVerseEmbeddings with one verse
AddSemanticVerse ==
  \E verse \in VersePool, embedding \in SemanticVectors :
    LET result == AddBibleVerseEmbeddings(Embeddings, <<verse>>, <<embedding>>)
    IN /\ op = "idle"
       /\ Embeddings' = result.Embeddings
       /\ op' = "AddBibleVerseEmbeddings"
       /\ args' = [records |-> <<verse>>, embeddings |-> <<embedding>>]
       /\ ret' = [raised |-> result.raised]
       /\ UNCHANGED <<EmbeddingsLoaded, CacheFile, Translations, AllStudyNotes, ChatHistory>>

\* a call of AddStudyNoteEmbeddings with one note
AddSemanticNote ==
  \E note \in NotePool, embedding \in SemanticVectors :
    LET result == AddStudyNoteEmbeddings(Embeddings, <<note>>, <<embedding>>)
    IN /\ op = "idle"
       /\ Embeddings' = result.Embeddings
       /\ op' = "AddStudyNoteEmbeddings"
       /\ args' = [records |-> <<note>>, embeddings |-> <<embedding>>]
       /\ ret' = [raised |-> result.raised]
       /\ UNCHANGED <<EmbeddingsLoaded, CacheFile, Translations, AllStudyNotes, ChatHistory>>

\* a call of _RetrieveBibleVersesSemantic
CallSemanticVerses ==
  \E query_embedding \in SemanticVectors, max_results \in 0..MaxResults :
    /\ op = "idle"
    /\ op' = "_RetrieveBibleVersesSemantic"
    /\ args' = [query_embedding |-> query_embedding, max_results |-> max_results]
    /\ ret' = _RetrieveBibleVersesSemantic(Embeddings, EmbeddingsLoaded, query_embedding,
                                           max_results)
    /\ UNCHANGED <<Embeddings, EmbeddingsLoaded, CacheFile, Translations, AllStudyNotes, ChatHistory>>

\* a call of _RetrieveStudyNotesSemantic
CallSemanticNotes ==
  \E query_embedding \in SemanticVectors, max_results \in 0..MaxResults :
    /\ op = "idle"
    /\ op' = "_RetrieveStudyNotesSemantic"
    /\ args' = [query_embedding |-> query_embedding, max_results |-> max_results]
    /\ ret' = _RetrieveStudyNotesSemantic(Embeddings, EmbeddingsLoaded, query_embedding,
                                          max_results)
    /\ UNCHANGED <<Embeddings, EmbeddingsLoaded, CacheFile, Translations, AllStudyNotes, ChatHistory>>

NextSemantic ==
  \/ Load
  \/ AddSemanticVerse
  \/ AddSemanticNote
  \/ CallSemanticVerses
  \/ CallSemanticNotes
  \/ Return

\* the semantic passes over stores built by loads and adds
SpecSemantic ==
  InitSemantic /\ [][NextSemantic]_vars

(***************************************************************************)
(* The keyword verse pass on its own                                       *)
(***************************************************************************)
F_web ==
  <<"w", "e", "b", ".", "x", "m", "l">>

\* a translation file that is not in TRANSLATION_PRIORITY
F_asv ==
  <<"a", "s", "v", ".", "x", "m", "l">>

\* a call of ParseTranslation on any of the four files
ParseAnyOfFour ==
  ParseFile({F_ylt, F_kjv, F_web, F_asv})

\* a call of _RetrieveBibleVersesKeyword: its result and the calls of
\* GetVersesByTopicKeywords it made
CallKeywordVerses ==
  \E query \in Queries, max_results \in 0..MaxResults :
    /\ op = "idle"
    /\ op' = "_RetrieveBibleVersesKeyword"
    /\ args' = [query |-> query, max_results |-> max_results]
    /\ ret' = [value |-> _RetrieveBibleVersesKeyword(Translations, query, max_results),
               queried |-> KeywordVersesLoop(Translations, _ExtractKeywords(query),
                                             TRANSLATION_PRIORITY, max_results,
                                             [all_verses |-> <<>>, queried |-> <<>>]).queried]
    /\ UNCHANGED <<Embeddings, EmbeddingsLoaded, CacheFile, Translations, AllStudyNotes, ChatHistory>>

NextKeyword ==
  \/ ParseAnyOfFour
  \/ CallKeywordVerses
  \/ Return

\* the keyword verse pass over every Record Store within the bounds
SpecKeyword ==
  Init /\ [][NextKeyword]_vars

(***************************************************************************)
(* Adds, saves, loads and retrievals of one run                            *)
(***************************************************************************)
NextBuild ==
  \/ AddOneVerse
  \/ AddOneNote
  \/ Save
  \/ Load
  \/ Retrieve
  \/ Return

\* a run that starts without a cache file, builds the store by adds and
\* saves it
SpecBuild ==
  Init /\ [][NextBuild]_vars

(***************************************************************************)
(* Keyword retrieval of study notes                                        *)
(***************************************************************************)
\* a call of LoadAllStudyNotes that finds note files of NotePool (pairwise
\* different paths) and appends them to AllStudyNotes
LoadAnyStudyNotes ==
  \E found \in SeqsUpTo(NotePool, MaxNotes) \ {<<>>} :
    /\ op = "idle"
    /\ \A i, j \in 1..Len(found) : found[i].file_path = found[j].file_path => i = j
    /\ Len(AllStudyNotes) + Len(found) <= MaxNotes
    /\ AllStudyNotes' = AllStudyNotes \o found
    /\ op' = "LoadAllStudyNotes"
    /\ args' = None
    /\ ret' = [raised |-> "none"]
    /\ UNCHANGED <<Embeddings, EmbeddingsLoaded, CacheFile, Translations, ChatHistory>>

NextNotes ==
  \/ LoadAnyStudyNotes
  \/ AddOneNote
  \/ Retrieve
  \/ Return

\* keyword-only retrieval of notes: the store is added to but never loaded
SpecNotes ==
  Init /\ [][NextNotes]_vars

(***************************************************************************)
(* Properties                                                              *)
(***************************************************************************)
SameVerse(v, w) ==
  v.translation = w.translation /\ v.osis_id = w.osis_id

\* C1: the list returned by the fusion step of RetrieveContent never holds
\* two verses with the same (translation, osis_id) nor two notes with the
\* same file_path, whatever the two passes returned.
C1_NoDuplicateKeys ==
  /\ op = "_CombineAndDeduplicateVerses" =>
       \A i, j \in 1..Len(ret.value) : SameVerse(ret.value[i], ret.value[j]) => i = j
  /\ op = "_CombineAndDeduplicateStudyNotes" =>
       \A i, j \in 1..Len(ret.value) :
         ret.value[i].file_path = ret.value[j].file_path => i = j

\* a key twice inside the semantic pass and again in the keyword pass,
\* which also brings a second verse
C1_Witness ==
  /\ op = "_CombineAndDeduplicateVerses"
  /\ Len(args.semantic_results) = 2
  /\ SameVerse(args.semantic_results[1][1], args.semantic_results[2][1])
  /\ \E k \in 1..Len(args.keyword_results) :
       SameVerse(args.keyword_results[k], args.semantic_results[1][1])
  /\ Len(ret.value) = 2

AddOps ==
  {"AddBibleVerseEmbeddings", "AddStudyNoteEmbeddings"}

\* C7: an Add*Embeddings call with lists of different lengths raises the
\* validation error and leaves the entries and the loaded flag as they were.
C7_MismatchStoresNothing ==
  [][(op' \in AddOps /\ Len(args'.records) # Len(args'.embeddings))
       => /\ ret'.raised = "ValueError"
          /\ Embeddings' = Embeddings
          /\ EmbeddingsLoaded' = EmbeddingsLoaded]_vars

\* a rejected batch of two records and one vector on a store with entries
C7_Witness ==
  /\ op \in AddOps
  /\ Len(args.records) = 2
  /\ Len(args.embeddings) = 1
  /\ ret.raised = "ValueError"
  /\ Len(Embeddings) >= 2

\* the identifier the add `opname` gives to a record
IdOf(opname, record) ==
  IF opname = "AddBibleVerseEmbeddings" THEN BibleItemId(record) ELSE StudyItemId(record)

\* the entry carries the vector, the text and the metadata of the record
Carries(item, opname, record, embedding) ==
  /\ item # None
  /\ item.embedding = embedding
  /\ IF opname = "AddBibleVerseEmbeddings"
       THEN /\ item.content_type = "bible_verse"
            /\ item.content = record.text
            /\ item.metadata = [translation |-> record.translation, book |-> record.book,
                                chapter |-> record.chapter, verse |-> record.verse,
                                osis_id |-> record.osis_id]
       ELSE /\ item.content_type = "study_note"
            /\ item.content = record.content
            /\ item.metadata = [book |-> record.book, testament |-> record.testament,
                                chapter_topic |-> record.chapter_topic,
                                filename |-> record.filename,
                                file_path |-> record.file_path,
                                line_count |-> record.line_count]

\* pairwise different records: verses by (translation, osis_id), notes by
\* file_path
DistinctRecords(opname, records) ==
  \A i, j \in 1..Len(records) :
    i # j => IF opname = "AddBibleVerseEmbeddings"
               THEN ~SameVerse(records[i], records[j])
               ELSE records[i].file_path # records[j].file_path

\* C8: from an empty store, after an add of n pairwise different records
\* with n vectors, GetEmbeddingsByType of that type returns exactly n
\* entries, each of that type, one for every record with its metadata.
C8_AddThenGetByType ==
  [][(/\ Embeddings = <<>>
      /\ op' \in AddOps
      /\ ret'.raised = "none"
      /\ DistinctRecords(op', args'.records))
       => LET content_type == IF op' = "AddBibleVerseEmbeddings"
                                THEN "bible_verse" ELSE "study_note"
              got == GetEmbeddingsByType(Embeddings', content_type)
          IN /\ Len(got) = Len(args'.records)
             /\ \A g \in 1..Len(got) : got[g].content_type = content_type
             /\ \A i \in 1..Len(args'.records) :
                  \E g \in 1..Len(got) :
                    Carries(got[g], op', args'.records[i], args'.embeddings[i])]_vars

\* C9: an add under an identifier that is already stored (before the call
\* or earlier in the same batch) overwrites: the store holds one entry per
\* identifier, entries under other identifiers are unchanged, and
\* GetEmbedding returns vector, text and metadata of the last add.
C9_LastWriteWins ==
  [][(op' \in AddOps /\ ret'.raised = "none")
       => LET records == args'.records
              ids == {IdOf(op', records[i]) : i \in 1..Len(records)}
          IN /\ DictKeys(Embeddings') = DictKeys(Embeddings) \cup ids
             /\ Len(Embeddings') = Cardinality(DictKeys(Embeddings) \cup ids)
             /\ \A k \in DictKeys(Embeddings) \ ids :
                  GetEmbedding(Embeddings', k) = GetEmbedding(Embeddings, k)
             /\ \A i \in 1..Len(records) :
                  (\A j \in (i + 1)..Len(records) :
                     IdOf(op', records[j]) # IdOf(op', records[i]))
                  => Carries(GetEmbedding(Embeddings', IdOf(op', records[i])),
                             op', records[i], args'.embeddings[i])]_vars

\* two different notes under one identifier in one batch, added to a store
\* that holds other entries: the second note is the one stored
C9_Witness ==
  /\ op = "AddStudyNoteEmbeddings"
  /\ ret.raised = "none"
  /\ Len(args.records) = 2
  /\ StudyItemId(args.records[1]) = StudyItemId(args.records[2])
  /\ args.records[1] # args.records[2]
  /\ args.embeddings[1] # args.embeddings[2]
  /\ Len(Embeddings) = 3
  /\ Carries(GetEmbedding(Embeddings, StudyItemId(args.records[2])),
             op, args.records[2], args.embeddings[2])

\* the stored entries FindSimilarContent ranks under a filter
Candidates(d, content_type_filter) ==
  {d[i].value : i \in {k \in 1..Len(d) : PassesFilter(d[k].value, content_type_filter)}}

\* C10: FindSimilarContent returns scores that never increase along the
\* list, at most max_results entries, nothing from an empty store, and the
\* best-scoring entries among those that pass the filter.
C10_FindSimilarRanked ==
  op = "FindSimilarContent" =>
    LET r == ret.value
        candidates == Candidates(Embeddings, args.content_type_filter)
        returned == {r[i][1] : i \in 1..Len(r)}
    IN /\ \A i \in 1..(Len(r) - 1) : SimGeq(r[i][2], r[i + 1][2])
       /\ Len(r) <= args.max_results
       /\ Embeddings = <<>> => r = <<>>
       /\ returned \subseteq candidates
       /\ Cardinality(returned) = Len(r)
       /\ Len(r) = IF Cardinality(candidates) < args.max_results
                     THEN Cardinality(candidates) ELSE args.max_results
       /\ \A i \in 1..Len(r) :
            SimEq(r[i][2], _CosineSimilarity(args.query_embedding, r[i][1].embedding))
       /\ \A c \in candidates \ returned : \A i \in 1..Len(r) :
            SimGeq(r[i][2], _CosineSimilarity(args.query_embedding, c.embedding))

\* three entries pass, two are returned in strictly falling order and the
\* entry stored last comes first
C10_Witness ==
  /\ op = "FindSimilarContent"
  /\ Cardinality(Candidates(Embeddings, args.content_type_filter)) = 3
  /\ Len(ret.value) = 2
  /\ ~SimGeq(ret.value[2][2], ret.value[1][2])
  /\ ret.value[1][1] = Embeddings[3].value

\* list[k] is the first record of the list with its (translation, osis_id)
FirstOfItsKey(list, k) ==
  \A j \in 1..(k - 1) : ~SameVerse(list[j], list[k])

\* C2: a verse returned by both passes of one RetrieveContent call is in
\* the final verse list exactly once, at its position in the semantic pass.
C2_SharedVerseAtSemanticPosition ==
  op = "RetrieveContent" =>
    \A i \in 1..Len(ret.semantic_bible_verses) :
      (\E k \in 1..Len(ret.keyword_bible_verses) :
         SameVerse(ret.keyword_bible_verses[k], ret.semantic_bible_verses[i][1]))
      => /\ i <= Len(ret.bible_verses)
         /\ ret.bible_verses[i] = ret.semantic_bible_verses[i][1]
         /\ \A j \in 1..Len(ret.bible_verses) :
              SameVerse(ret.bible_verses[j], ret.semantic_bible_verses[i][1]) => j = i

\* the shared verse is second of the semantic pass and first of the
\* keyword pass, and comes out second
C2_Witness ==
  /\ op = "RetrieveContent"
  /\ Len(ret.semantic_bible_verses) = 2
  /\ ret.keyword_bible_verses # <<>>
  /\ SameVerse(ret.keyword_bible_verses[1], ret.semantic_bible_verses[2][1])
  /\ Len(ret.bible_verses) = 2
  /\ ret.bible_verses[2] = ret.semantic_bible_verses[2][1]

\* C3: for all bounds >= 0 and all contents of the two stores,
\* RetrieveContent returns at most max_bible_results verses and at most
\* max_study_results notes.
C3_ResultsWithinBounds ==
  op = "RetrieveContent" =>
    /\ Len(ret.bible_verses) <= args.max_bible_results
    /\ Len(ret.study_notes) <= args.max_study_results

\* a bound of 0 although both the loaded Embedding Store and the Record
\* Store hold a verse and a note for the query
C3_Witness ==
  /\ op = "RetrieveContent"
  /\ args.query = Q_love
  /\ args.max_bible_results = 0
  /\ args.max_study_results = 0
  /\ EmbeddingsLoaded
  /\ GetEmbeddingsByType(Embeddings, "bible_verse") # <<>>
  /\ GetEmbeddingsByType(Embeddings, "study_note") # <<>>
  /\ _RetrieveBibleVersesKeyword(Translations, Q_love, 1) # <<>>
  /\ _RetrieveStudyNotesKeyword(AllStudyNotes, Q_love, 1) # <<>>
  /\ ret.bible_verses = <<>>
  /\ ret.study_notes = <<>>

\* the records of `list` that are the first with their key, in list order
RECURSIVE FirstVerses(_, _)
FirstVerses(list, k) ==
  IF k > Len(list) THEN <<>>
  ELSE (IF FirstOfItsKey(list, k) THEN <<list[k]>> ELSE <<>>) \o FirstVerses(list, k + 1)

RECURSIVE FirstNotes(_, _)
FirstNotes(list, k) ==
  IF k > Len(list) THEN <<>>
  ELSE (IF \A j \in 1..(k - 1) : list[j].file_path # list[k].file_path
          THEN <<list[k]>> ELSE <<>>)
       \o FirstNotes(list, k + 1)

\* C4: with EmbeddingsLoaded false RetrieveContent makes no call of
\* FindSimilarContent, both semantic passes are empty, the returned verses
\* and notes are the keyword-pass results with duplicates removed, cut to
\* the bound, and nothing is raised.
C4_UnloadedIsKeywordOnly ==
  (op = "RetrieveContent" /\ ~EmbeddingsLoaded) =>
    /\ ret.find_similar_calls = 0
    /\ ret.semantic_bible_verses = <<>>
    /\ ret.semantic_study_notes = <<>>
    /\ ret.bible_verses =
         Slice(FirstVerses(_RetrieveBibleVersesKeyword(Translations, args.query,
                                                       args.max_bible_results), 1),
               args.max_bible_results)
    /\ ret.study_notes =
         Slice(FirstNotes(_RetrieveStudyNotesKeyword(AllStudyNotes, args.query,
                                                     args.max_study_results), 1),
               args.max_study_results)
    /\ ret.raised = "none"

\* the store holds a verse and a note that were added but never loaded;
\* the keyword pass finds the note once for each of two keywords
C4_Witness ==
  /\ op = "RetrieveContent"
  /\ ~EmbeddingsLoaded
  /\ FindSimilarContent(Embeddings, _GenerateEmbedding(args.query), "bible_verse", 2) # <<>>
  /\ FindSimilarContent(Embeddings, _GenerateEmbedding(args.query), "study_note", 2) # <<>>
  /\ Len(ret.keyword_study_notes) = 2
  /\ Len(ret.study_notes) = 1
  /\ ret.bible_verses # <<>>

\* C5: on an empty Record Store and an Embedding Store that is empty or
\* not loaded, RetrieveContent returns empty verse and note lists, both
\* totals 0 and the query unchanged, and raises nothing.
C5_EmptyStoresEmptyResult ==
  (/\ op = "RetrieveContent"
   /\ Translations = <<>>
   /\ AllStudyNotes = <<>>
   /\ (Embeddings = <<>> \/ ~EmbeddingsLoaded))
  => /\ ret.bible_verses = <<>>
     /\ ret.study_notes = <<>>
     /\ ret.total_bible_results = 0
     /\ ret.total_study_results = 0
     /\ ret.query = args.query
     /\ ret.raised = "none"

\* the query "love God" with both bounds at their largest, on a store
\* loaded from a cache file without entries
C5_Witness ==
  /\ op = "RetrieveContent"
  /\ Translations = <<>>
  /\ AllStudyNotes = <<>>
  /\ Embeddings = <<>>
  /\ EmbeddingsLoaded
  /\ args.query = Q_loveGod
  /\ args.max_bible_results = MaxResults
  /\ args.max_study_results = MaxResults
  /\ ret.total_bible_results = 0

\* the keys of the verses of the priority translations held by the Record
\* Store whose text contains a keyword of the query
MatchingVerseKeys(translations, query) ==
  LET held == VersesToSearch(translations, TranslationsToSearch(translations, None))
      priority == {TRANSLATION_PRIORITY[i] : i \in 1..Len(TRANSLATION_PRIORITY)}
  IN {VerseKey(held[i]) :
        i \in {k \in 1..Len(held) :
                /\ held[k].translation \in priority
                /\ VerseHasKeyword(held[k], _ExtractKeywords(query))}}

\* C6: with the Embedding Store unloaded, RetrieveContent returns exactly
\* min(m, M) verses, m being max_bible_results and M the number of distinct
\* verses of the priority translations whose text contains a keyword of the
\* query.
C6_KeywordVerseCount ==
  (op = "RetrieveContent" /\ ~EmbeddingsLoaded) =>
    LET m == args.max_bible_results
        M == Cardinality(MatchingVerseKeys(Translations, args.query))
    IN Len(ret.bible_verses) = IF m < M THEN m ELSE M

\* C11: after a successful SaveEmbeddings, LoadEmbeddings on a fresh store
\* over the same cache file gives a store with exactly the entries of the
\* saved store, each with the same id, vector, text, content type and
\* metadata, and with EmbeddingsLoaded true.
C11_SaveLoadRoundTrip ==
  (op = "SaveEmbeddings" /\ ret.saved) =>
    LET fresh == LoadEmbeddings(<<>>, FALSE, CacheFile)
    IN /\ fresh.EmbeddingsLoaded
       /\ Len(fresh.Embeddings) = Len(Embeddings)
       /\ \A i \in 1..Len(Embeddings) :
            /\ fresh.Embeddings[i].key = Embeddings[i].key
            /\ fresh.Embeddings[i].value.id = Embeddings[i].value.id
            /\ fresh.Embeddings[i].value.embedding = Embeddings[i].value.embedding
            /\ fresh.Embeddings[i].value.content = Embeddings[i].value.content
            /\ fresh.Embeddings[i].value.content_type = Embeddings[i].value.content_type
            /\ fresh.Embeddings[i].value.metadata = Embeddings[i].value.metadata

\* a store with a verse entry and a note entry has been saved
C11_Witness ==
  /\ op = "SaveEmbeddings"
  /\ ret.saved
  /\ GetEmbeddingsByType(Embeddings, "bible_verse") # <<>>
  /\ GetEmbeddingsByType(Embeddings, "study_note") # <<>>
  /\ LoadEmbeddings(<<>>, FALSE, CacheFile).Embeddings = Embeddings

\* the entries of a cache file or of a saved dict, as a set
FileEntries(file) ==
  {file.data[i] : i \in 1..Len(file.data)}

\* C12: after a successful LoadEmbeddings the in-memory entries are exactly
\* the entries of the cache file; an entry that was in memory and is not in
\* the file is gone.
C12_LoadReplacesMemory ==
  [][(/\ op' = "LoadEmbeddings"
      /\ CacheFile.kind # "missing"
      /\ LoadTry(Embeddings, CacheFile).raised = "none")
     => FileEntries(SavedFile(Embeddings')) = FileEntries(CacheFile)]_vars

\* C13: LoadEmbeddings with no cache file leaves the store empty and
\* EmbeddingsLoaded false, whatever the store held before the call.
C13_MissingFileLeavesEmpty ==
  [][(op' = "LoadEmbeddings" /\ CacheFile.kind = "missing")
     => (Embeddings' = <<>> /\ ~EmbeddingsLoaded')]_vars

\* C14: LoadEmbeddings on a cache file that cannot be unpickled, or that
\* has an entry without one of its fields, leaves the store empty and
\* EmbeddingsLoaded false, also after an earlier successful load.
C14_CorruptFileLeavesEmpty ==
  [][(/\ op' = "LoadEmbeddings"
      /\ CacheFile.kind # "missing"
      /\ LoadTry(Embeddings, CacheFile).raised # "none")
     => (Embeddings' = <<>> /\ ~EmbeddingsLoaded')]_vars

\* C15: SaveEmbeddings and LoadEmbeddings always return normally, whatever
\* fails inside them, and a SaveEmbeddings whose I/O failed leaves the
\* entries and the EmbeddingsLoaded flag as they were.
C15_SaveLoadNeverRaise ==
  [][/\ op' \in {"SaveEmbeddings", "LoadEmbeddings"} => ret'.raised = "none"
     /\ (op' = "SaveEmbeddings" /\ ~ret'.saved)
        => (Embeddings' = Embeddings /\ EmbeddingsLoaded' = EmbeddingsLoaded)]_vars

\* a load of the file that a failed pickle.dump left truncated
C15_Witness ==
  /\ op = "LoadEmbeddings"
  /\ CacheFile.kind = "truncated"
  /\ LoadTry(Embeddings, CacheFile).raised = "UnpicklingError"
  /\ ret.raised = "none"

\* C16: ClearEmbeddings leaves, from any state, no entry in memory,
\* EmbeddingsLoaded false and no cache file; a second ClearEmbeddings
\* changes nothing and raises nothing, and a LoadEmbeddings after it loads
\* nothing.
C16_ClearResetsEverything ==
  [][op' = "ClearEmbeddings"
     => /\ Embeddings' = <<>>
        /\ ~EmbeddingsLoaded'
        /\ CacheFile'.kind = "missing"
        /\ ret'.raised = "none"
        /\ LET again == ClearEmbeddings(Embeddings', EmbeddingsLoaded', CacheFile')
           IN /\ again.Embeddings = Embeddings'
              /\ again.EmbeddingsLoaded = EmbeddingsLoaded'
              /\ again.CacheFile = CacheFile'
              /\ again.raised = "none"
        /\ LET load == LoadEmbeddings(Embeddings', EmbeddingsLoaded', CacheFile')
           IN /\ load.Embeddings = <<>>
              /\ ~load.EmbeddingsLoaded]_vars

\* a clear that found a cache file and removed it
C16_Witness ==
  /\ op = "ClearEmbeddings"
  /\ ret.unlinked
  /\ Embeddings = <<>>
  /\ ~EmbeddingsLoaded
  /\ CacheFile.kind = "missing"

\* s[i..j] is a maximal run of word characters of s
IsToken(s, i, j) ==
  /\ i <= j
  /\ \A k \in i..j : IsWordChar(s[k])
  /\ i = 1 \/ ~IsWordChar(s[i - 1])
  /\ j = Len(s) \/ ~IsWordChar(s[j + 1])

\* the tokens of s, as <<first, last>> positions, that are longer than two
\* characters and are not stop words
KeptTokens(s) ==
  {p \in (1..Len(s)) \X (1..Len(s)) :
     /\ IsToken(s, p[1], p[2])
     /\ p[2] - p[1] + 1 > 2
     /\ SubSeq(s, p[1], p[2]) \notin common_words}

\* C17: _ExtractKeywords returns the lowercased word tokens of the query in
\* their order, without the stop words and the tokens of at most two
\* characters, cut to the first 10; nothing when no token remains.
C17_KeywordsAreFilteredTokens ==
  op = "_ExtractKeywords" =>
    LET s == Lower(args.query)
        kept == KeptTokens(s)
    IN /\ Len(ret.value) = IF Cardinality(kept) < 10 THEN Cardinality(kept) ELSE 10
       /\ \A r \in 1..Len(ret.value) :
            \E p \in kept :
              /\ Cardinality({q \in kept : q[1] < p[1]}) = r - 1
              /\ ret.value[r] = SubSeq(s, p[1], p[2])

\* eleven tokens remain after the filter, among them one that was in
\* capitals, and a stop word was dropped
C17_Witness ==
  /\ op = "_ExtractKeywords"
  /\ Cardinality(KeptTokens(Lower(args.query))) = 11
  /\ Len(ret.value) = 10
  /\ Contains(args.query, <<"T", "h", "e">>)
  /\ Contains(args.query, <<"L", "o", "v", "e">>)

\* the keyword list holds the word
HasKeyword(keywords, word) ==
  \E i \in 1..Len(keywords) : keywords[i] = word

\* C18: for "What does the Bible say about love?" the keywords contain
\* "bible" and "love" and none of "what", "does", "the", "about".
C18_BibleQueryKeywords ==
  (op = "_ExtractKeywords" /\ args.query = Q_Bible) =>
    /\ HasKeyword(ret.value, <<"b", "i", "b", "l", "e">>)
    /\ HasKeyword(ret.value, <<"l", "o", "v", "e">>)
    /\ ~HasKeyword(ret.value, <<"w", "h", "a", "t">>)
    /\ ~HasKeyword(ret.value, <<"d", "o", "e", "s">>)
    /\ ~HasKeyword(ret.value, <<"t", "h", "e">>)
    /\ ~HasKeyword(ret.value, <<"a", "b", "o", "u", "t">>)

\* C19: SearchVerses, GetVersesByTopicKeywords and SearchStudyNotes return
\* at most max_results records, for every max_results >= 0.
C19_SearchesWithinBound ==
  op \in {"SearchVerses", "GetVersesByTopicKeywords", "SearchStudyNotes"} =>
    Len(ret.value) <= args.max_results

\* C20: after any sequence of ProcessChatMessage, _AddToChatHistory and
\* ClearChatHistory calls, ChatHistory holds at most 20 messages.
C20_HistoryAtMostTwenty ==
  Len(ChatHistory) <= 2 * CHAT_SESSION_MAX_HISTORY

\* the 21st message has just been added and the history was cut to 10
C20_Witness ==
  /\ op \in {"ProcessChatMessage", "_AddToChatHistory"}
  /\ Len(ChatHistory) = CHAT_SESSION_MAX_HISTORY
  /\ ChatHistory[1].role = "assistant"

\* the messages a ProcessChatMessage step has added, judged by what the
\* caller sees: the user message, and the reply when the call succeeded
AddedByCall(user_message, response) ==
  IF response.raised = "none" /\ response.success
    THEN <<[role |-> "user", content |-> user_message],
           [role |-> "assistant", content |-> response.content]>>
    ELSE <<[role |-> "user", content |-> user_message]>>

\* C21: every ProcessChatMessage call succeeds exactly when the LLM gave a
\* non-empty text; the history then ends with the user message followed by
\* the assistant reply, and otherwise with the user message alone (also
\* when the call raises).  What precedes the added messages is the old
\* history, whole unless an append cut it to its last messages.
C21_UserThenReplyOnSuccess ==
  [][op' = "ProcessChatMessage" =>
       LET added == AddedByCall(args'.user_message, ret')
           kept == Len(ChatHistory') - Len(added)
       IN /\ (ret'.raised = "none" /\ ret'.success) <=> (args'.llm = "text")
          /\ kept >= 0
          /\ kept <= Len(ChatHistory)
          /\ SubSeq(ChatHistory', kept + 1, Len(ChatHistory')) = added
          /\ SubSeq(ChatHistory', 1, kept)
               = SubSeq(ChatHistory, Len(ChatHistory) - kept + 1, Len(ChatHistory))
          /\ (Len(ChatHistory) + Len(added) <= 2 * CHAT_SESSION_MAX_HISTORY
                => kept = Len(ChatHistory))]_vars

\* a call in which the LLM gave nothing has just returned, after a call
\* that succeeded: the history ends assistant, user
C21_Witness ==
  /\ op = "ProcessChatMessage"
  /\ ret.raised = "none"
  /\ ~ret.success
  /\ Len(ChatHistory) >= 3
  /\ ChatHistory[Len(ChatHistory)].role = "user"
  /\ ChatHistory[Len(ChatHistory) - 1].role = "assistant"
  /\ ChatHistory[Len(ChatHistory) - 2].role = "user"

\* the reference list of the fusion step for verses: semantic records,
\* then keyword records, first occurrence of each key only, cut to the bound
ReferenceVerses(semantic_results, keyword_results, max_results) ==
  Slice(FirstVerses([i \in 1..Len(semantic_results) |-> semantic_results[i][1]]
                      \o keyword_results, 1),
        max_results)

\* the reference list of the fusion step for notes
ReferenceNotes(semantic_results, keyword_results, max_results) ==
  Slice(FirstNotes([i \in 1..Len(semantic_results) |-> semantic_results[i][1]]
                     \o keyword_results, 1),
        max_results)

\* C22: for each content class the list returned by the fusion step is the
\* reference list: the semantic hits in their order without later
\* duplicates, then the keyword hits whose key was not seen before, the
\* whole cut to the class bound.
C22_FusionEqualsReference ==
  /\ op = "_CombineAndDeduplicateVerses" =>
       ret.value = ReferenceVerses(args.semantic_results, args.keyword_results,
                                   args.max_results)
  /\ op = "_CombineAndDeduplicateStudyNotes" =>
       ret.value = ReferenceNotes(args.semantic_results, args.keyword_results,
                                  args.max_results)

\* C23: both fusion functions return at most max_results records, for
\* every max_results >= 0 and every pair of input lists.
C23_FusionWithinBound ==
  op \in {"_CombineAndDeduplicateVerses", "_CombineAndDeduplicateStudyNotes"} =>
    Len(ret.value) <= args.max_results

\* cosine(a, b) >= 3/10, stated on the integers: neither vector is zero,
\* the dot product is not negative and 100 (a.b)^2 >= 9 |a|^2 |b|^2
CosineAtLeastThreshold(a, b) ==
  /\ Dot(a, a) > 0
  /\ Dot(b, b) > 0
  /\ Dot(a, b) >= 0
  /\ 100 * Dot(a, b) * Dot(a, b) >= 9 * Dot(a, a) * Dot(b, b)

\* the entries of the store with the given content type
EntriesOfType(d, content_type) ==
  {d[i].value : i \in {k \in 1..Len(d) : d[k].value.content_type = content_type}}

\* C24: every record of a semantic pass comes from an entry whose cosine
\* to the query vector is at least 0.3; an entry at exactly 0.3 is kept
\* (whenever the cut to max_results leaves it in); an entry with a zero
\* vector, or any entry under a zero query vector, is never returned.
C24_SemanticAtLeastThreshold ==
  op \in {"_RetrieveBibleVersesSemantic", "_RetrieveStudyNotesSemantic"} =>
    LET content_type == IF op = "_RetrieveBibleVersesSemantic"
                          THEN "bible_verse" ELSE "study_note"
        entries == EntriesOfType(Embeddings, content_type)
        IsRecordOf(record, entry) ==
          IF content_type = "bible_verse"
            THEN entry.id = BibleItemId(record)
            ELSE entry.id = StudyItemId(record)
        returned == {e \in entries :
                       \E i \in 1..Len(ret.value) : IsRecordOf(ret.value[i][1], e)}
    IN /\ \A i \in 1..Len(ret.value) :
            /\ \E e \in entries :
                 /\ IsRecordOf(ret.value[i][1], e)
                 /\ CosineAtLeastThreshold(args.query_embedding, e.embedding)
            /\ SimGeq(ret.value[i][2], Sim(9, 100))
       /\ \A e \in returned : Dot(e.embedding, e.embedding) # 0
       /\ Dot(args.query_embedding, args.query_embedding) = 0 => ret.value = <<>>
       /\ (EmbeddingsLoaded /\ Cardinality(entries) <= args.max_results) =>
            \A e \in entries :
              CosineAtLeastThreshold(args.query_embedding, e.embedding) => e \in returned

\* the verse pass has returned a verse at cosine exactly 0.3 and left out
\* a verse whose vector is zero
C24_Witness ==
  /\ op = "_RetrieveBibleVersesSemantic"
  /\ \E i \in 1..Len(ret.value) : SimEq(ret.value[i][2], Sim(9, 100))
  /\ \E e \in EntriesOfType(Embeddings, "bible_verse") :
       /\ Dot(e.embedding, e.embedding) = 0
       /\ \A i \in 1..Len(ret.value) : e.id # BibleItemId(ret.value[i][1])

\* the verses the semantic pass can build from the bible_verse entries
VersesOfEntries(d) ==
  {VerseOfItem(e) : e \in EntriesOfType(d, "bible_verse")}

\* the notes the semantic pass can build from the study_note entries
NotesOfEntries(d) ==
  {NoteOfItem(e) : e \in EntriesOfType(d, "study_note")}

\* C25: FindSimilarContent under a content-type filter returns only
\* entries of that type; every verse of the semantic verse pass of
\* RetrieveContent is built from a bible_verse entry and every note of the
\* semantic note pass from a study_note entry, and the returned lists hold
\* nothing but these and the keyword hits of their own class.
C25_ClassesNeverMix ==
  /\ (op = "FindSimilarContent" /\ args.content_type_filter \in {"bible_verse", "study_note"}) =>
       \A i \in 1..Len(ret.value) : ret.value[i][1].content_type = args.content_type_filter
  /\ op = "RetrieveContent" =>
       /\ \A i \in 1..Len(ret.semantic_bible_verses) :
            ret.semantic_bible_verses[i][1] \in VersesOfEntries(Embeddings)
       /\ \A i \in 1..Len(ret.semantic_study_notes) :
            ret.semantic_study_notes[i][1] \in NotesOfEntries(Embeddings)
       /\ \A i \in 1..Len(ret.bible_verses) :
            \/ ret.bible_verses[i] \in VersesOfEntries(Embeddings)
            \/ \E k \in 1..Len(ret.keyword_bible_verses) :
                 ret.keyword_bible_verses[k] = ret.bible_verses[i]
       /\ \A i \in 1..Len(ret.study_notes) :
            \/ ret.study_notes[i] \in NotesOfEntries(Embeddings)
            \/ \E k \in 1..Len(ret.keyword_study_notes) :
                 ret.keyword_study_notes[k] = ret.study_notes[i]

\* RetrieveContent has returned semantic hits of both classes from a store
\* that holds entries of both
C25_Witness ==
  /\ op = "RetrieveContent"
  /\ ret.semantic_bible_verses # <<>>
  /\ ret.semantic_study_notes # <<>>
  /\ Len(ret.bible_verses) >= 1
  /\ Len(ret.study_notes) >= 1

\* position of a translation code in TRANSLATION_PRIORITY, 0 when absent
PriorityRank(translation) ==
  IF \E k \in 1..Len(TRANSLATION_PRIORITY) : TRANSLATION_PRIORITY[k] = translation
    THEN CHOOSE k \in 1..Len(TRANSLATION_PRIORITY) : TRANSLATION_PRIORITY[k] = translation
    ELSE 0

\* number of verses the first k queries returned together
RECURSIVE ReturnedByFirst(_, _)
ReturnedByFirst(queried, k) ==
  IF k = 0 THEN 0 ELSE queried[k].returned + ReturnedByFirst(queried, k - 1)

\* C26: the keyword verse pass asks for YLT, KJV, WEB in this order and for
\* nothing else; a later translation is asked for exactly when the earlier
\* ones together returned fewer than max_results verses; the hits of an
\* earlier translation stand before those of a later one, and no verse of
\* a translation outside the list is returned.
C26_PriorityOrderAndEarlyStop ==
  op = "_RetrieveBibleVersesKeyword" =>
    LET queried == ret.queried
        n == Len(queried)
    IN /\ n >= 1
       /\ n <= Len(TRANSLATION_PRIORITY)
       /\ \A k \in 1..n : queried[k].translation = TRANSLATION_PRIORITY[k]
       /\ \A k \in 2..n : ReturnedByFirst(queried, k - 1) < args.max_results
       /\ n < Len(TRANSLATION_PRIORITY) => ReturnedByFirst(queried, n) >= args.max_results
       /\ \A i \in 1..Len(ret.value) : PriorityRank(ret.value[i].translation) >= 1
       /\ \A i, j \in 1..Len(ret.value) :
            i < j => PriorityRank(ret.value[i].translation)
                       <= PriorityRank(ret.value[j].translation)

\* YLT gave one hit, fewer than the bound, so KJV was asked and filled
\* the bound; WEB was not asked, and ASV, parsed with a verse that holds
\* the keyword, was never asked
C26_Witness ==
  /\ op = "_RetrieveBibleVersesKeyword"
  /\ args.max_results = 2
  /\ Len(ret.queried) = 2
  /\ ret.queried[1].returned = 1
  /\ Len(ret.value) = 2
  /\ ret.value[1].translation = S_YLT
  /\ ret.value[2].translation = S_KJV
  /\ F_asv \in DictKeys(Translations)
  /\ GetVersesByTopicKeywords(Translations, _ExtractKeywords(args.query), F_asv, 1) # <<>>

ReturnedRecords(pass) ==
  {pass[k][1] : k \in 1..Len(pass)}

\* C28: right after an add to a loaded store, the semantic pass asked with
\* the vector of an added record returns a record equal to it in every
\* field (verse: translation, book, chapter, verse, text, osis_id; note:
\* file_path, content, book, testament, chapter_topic, filename,
\* line_count); and every record a semantic pass returns is, field by
\* field, one of the records that were stored.  The Record Store is empty
\* all along.
C28_ReconstructedFromEntry ==
  [][/\ (op' = "AddBibleVerseEmbeddings" /\ ret'.raised = "none" /\ EmbeddingsLoaded') =>
          \A i \in 1..Len(args'.records) :
            Dot(args'.embeddings[i], args'.embeddings[i]) > 0 =>
              args'.records[i] \in
                ReturnedRecords(_RetrieveBibleVersesSemantic(Embeddings', EmbeddingsLoaded',
                                  args'.embeddings[i], Len(Embeddings')).value)
     /\ (op' = "AddStudyNoteEmbeddings" /\ ret'.raised = "none" /\ EmbeddingsLoaded') =>
          \A i \in 1..Len(args'.records) :
            Dot(args'.embeddings[i], args'.embeddings[i]) > 0 =>
              args'.records[i] \in
                ReturnedRecords(_RetrieveStudyNotesSemantic(Embeddings', EmbeddingsLoaded',
                                  args'.embeddings[i], Len(Embeddings')).value)
     /\ op' = "_RetrieveBibleVersesSemantic" =>
          ReturnedRecords(ret'.value) \subseteq VersePool \cup {V_YLT_316}
     /\ op' = "_RetrieveStudyNotesSemantic" =>
          ReturnedRecords(ret'.value) \subseteq NotePool
     /\ Translations' = <<>>
     /\ AllStudyNotes' = <<>>]_vars

\* the verse pass has returned, from a store that was loaded and then
\* added to, a verse that is not in the cache file
C28_Witness ==
  /\ op = "_RetrieveBibleVersesSemantic"
  /\ EmbeddingsLoaded
  /\ V_KJV_317 \in ReturnedRecords(ret.value)
  /\ Translations = <<>>

\* C29: an add or a save never changes EmbeddingsLoaded; the flag turns
\* true only in a LoadEmbeddings call that read the cache file without an
\* exception; and while it is false RetrieveContent makes no call of
\* FindSimilarContent and returns no semantic hit, whatever was added.
C29_AddsLeaveFlag ==
  [][/\ op' \in AddOps \cup {"SaveEmbeddings"} => EmbeddingsLoaded' = EmbeddingsLoaded
     /\ (EmbeddingsLoaded' /\ ~EmbeddingsLoaded) =>
          /\ op' = "LoadEmbeddings"
          /\ CacheFile.kind # "missing"
          /\ LoadTry(Embeddings, CacheFile).raised = "none"
     /\ (op' = "RetrieveContent" /\ ~EmbeddingsLoaded') =>
          /\ ret'.semantic_bible_verses = <<>>
          /\ ret'.semantic_study_notes = <<>>
          /\ ret'.find_similar_calls = 0]_vars

\* a verse and a note were added and saved, the store was never loaded,
\* and RetrieveContent, asked with a query whose vector is the one stored
\* with both, has returned no semantic hit
C29_Witness ==
  /\ op = "RetrieveContent"
  /\ ~EmbeddingsLoaded
  /\ Len(Embeddings) = 2
  /\ CacheFile = SavedFile(Embeddings)
  /\ \A i \in 1..Len(Embeddings) :
       Embeddings[i].value.embedding = _GenerateEmbedding(args.query)
  /\ args.max_bible_results >= 1
  /\ args.max_study_results >= 1
  /\ ret.semantic_bible_verses = <<>>
  /\ ret.semantic_study_notes = <<>>

\* the file paths of the notes of the Record Store whose content or topic
\* holds at least one keyword of the query
MatchingNotePaths(all_study_notes, query) ==
  LET keywords == _ExtractKeywords(query)
  IN {all_study_notes[i].file_path :
        i \in {k \in 1..Len(all_study_notes) :
                \E w \in 1..Len(keywords) : NoteMatches(all_study_notes[k], keywords[w])}}

\* C30: with the Embedding Store unloaded, RetrieveContent returns exactly
\* min(m, D) notes, m being max_study_results and D the number of distinct
\* notes (by file_path) whose content or topic holds a keyword of the
\* query.
C30_KeywordNoteCount ==
  (op = "RetrieveContent" /\ ~EmbeddingsLoaded) =>
    LET m == args.max_study_results
        D == Cardinality(MatchingNotePaths(AllStudyNotes, args.query))
    IN Len(ret.study_notes) = IF m < D THEN m ELSE D

=============================================================================
